---- MODULE Spec2Model ----
(***************************************************************************)
(* The persistent volume controller (package volumeclaimbinder): the claim *)
(* and volume reconcilers, the per-volume operation tasks, and the remote  *)
(* API and informer caches they run against.                               *)
(*                                                                         *)
(* Objects are held by pointer: the informer store, the volume index and a *)
(* running task share one in-memory object per volume, so a field a        *)
(* reconciler sets on a cached object is seen by every later pass until a  *)
(* watch event replaces the cached object by the API's copy.  A cached     *)
(* object keeps the resource version it was delivered with: it is stale    *)
(* (its writes are rejected with a conflict) exactly while an event for a  *)
(* newer version is undelivered.                                           *)
(***************************************************************************)
EXTENDS Integers, Sequences, FiniteSets, TLC

VARIABLES
    apiVolumes,     \* the remote API: volume name -> volume object
    apiClaims,      \* the remote API: claim name -> claim object
    volumeStore,    \* controller.volumeStore: the informer's cached volume objects
    claimStore,     \* controller.claimStore: the informer's cached claim objects
    volumeEvent,    \* volume name -> a watch event for it is undelivered
    claimEvent,     \* claim name -> a watch event for it is undelivered
    volumeIndex,    \* controller.volumeIndex: names of the indexed volumes
                    \* (petco: binder.cache, key -> sorted list of entries)
    locks,          \* controller.locks: the volume names that carry a busy marker
    tasks,          \* volume name -> the background tasks (goroutines) running for it
    apiErrors,      \* transient API errors injected so far
    created,        \* volumes created by the provisioning rule so far
    faulted,        \* a handler ended in a runtime fault (nil dereference)
    crashed,        \* the process died (a fault in a background task)
    stopChannels,   \* controller.stopChannels: loop name -> channel (0: no entry)
    channels,       \* the channels made so far: the loop each was handed to
                    \* and how often it has been closed
    lock,           \* provisioner.lock: "" when free, else the callback holding it
    provisionedClaims,  \* provisioner.provisionedClaims: the claim keys recorded
    watcher         \* the binding controller's watch loop: its cursor, its
                    \* stream and the handler calls it has made

vars == <<apiVolumes, apiClaims, volumeStore, claimStore, volumeEvent, claimEvent,
          volumeIndex, locks, tasks, apiErrors, created, faulted, crashed,
          stopChannels, channels, lock, provisionedClaims, watcher>>

-----------------------------------------------------------------------------
(* Bounds of the model. *)

MaxApiErrors == 1       \* transient API errors injected in one run
MaxVersion == 5         \* resource versions the API hands out in one run
MaxWatchErrors == 2     \* Error events a watch stream delivers in one run
MaxProvisioned == 1     \* volumes the provisioning rule may create in one run
MaxTasks == 2           \* background tasks tracked per volume
MaxChannels == 4        \* stop channels made in one run

-----------------------------------------------------------------------------
(* The object universe. *)

NONE == "none"

UserVolumes == {"pv1", "pv2"}
ProvisionedVolumes == {"pvp1", "pvp2"}
VolumeNames == UserVolumes \cup ProvisionedVolumes
ClaimNames == {"c1", "c2"}
LoopNames == {"volumes", "claims"}

\* Lexicographic order of the volume names.
NameRank(v) ==
    CASE v = "pv1" -> 1 [] v = "pv2" -> 2 [] v = "pvp1" -> 3 [] v = "pvp2" -> 4
      [] OTHER -> 5

\* The name the plugin's template generates for the n-th provisioned volume.
GeneratedName(n) == IF n = 1 THEN "pvp1" ELSE "pvp2"

AccessModes == {"RWO", "ROX", "RWX"}

NoVolume ==
    [exists |-> FALSE, capacity |-> 0, modes |-> {}, policy |-> "Retain",
     claimRef |-> NONE, phase |-> "", recycle |-> "", delete |-> "", prov |-> "",
     provFor |-> NONE, qos |-> ""]

NoClaim ==
    [exists |-> FALSE, request |-> 0, modes |-> {}, qos |-> "", volumeName |-> "",
     phase |-> "", prov |-> ""]

\* The values of the three "required" annotations: absent, "true", or the
\* matching "completed" string.
pvRecycleRequired == "recycle"
pvDeleteRequired == "delete"
pvProvisioningRequired == "prov"
Completed == "completed"

\* The plugin registry handed to NewPersistentVolumeController.
provisionerPlugins == {"foo"}

\* key(claim): the namespace/name string of a claim (one namespace, "ns").
ClaimToProvisionableKey(c) == c

\* The binding controller's watch loop before its first Watch call: the
\* cursor is "" (0), no stream is open, the handler was never called.
NotWatching ==
    [rv |-> 0, watching |-> FALSE, sent |-> 0, handled |-> <<>>, errors |-> 0]

-----------------------------------------------------------------------------
(* The world a handler pass works on: the state variables as one record,   *)
(* plus the pass-local count of API calls made (calls) and the outcome of  *)
(* the last API call (ok).                                                 *)

Now ==
    [av |-> apiVolumes, ac |-> apiClaims, vs |-> volumeStore, cs |-> claimStore,
     ve |-> volumeEvent, ce |-> claimEvent, idx |-> volumeIndex, locks |-> locks,
     tasks |-> tasks, errs |-> apiErrors, created |-> created,
     faulted |-> faulted, crashed |-> crashed,
     stop |-> stopChannels, chans |-> channels,
     lock |-> lock, pclaims |-> provisionedClaims, watcher |-> watcher,
     calls |-> 0, ok |-> TRUE, blocked |-> FALSE]

\* The pass ends: its world becomes the next state (computed once).
Commit(world) == \E w \in {world} :
    /\ ~w.blocked
    /\ apiVolumes' = w.av
    /\ apiClaims' = w.ac
    /\ volumeStore' = w.vs
    /\ claimStore' = w.cs
    /\ volumeEvent' = w.ve
    /\ claimEvent' = w.ce
    /\ volumeIndex' = w.idx
    /\ locks' = w.locks
    /\ tasks' = w.tasks
    /\ apiErrors' = w.errs
    /\ created' = w.created
    /\ faulted' = w.faulted
    /\ crashed' = w.crashed
    /\ stopChannels' = w.stop
    /\ channels' = w.chans
    /\ lock' = w.lock
    /\ provisionedClaims' = w.pclaims
    /\ watcher' = w.watcher

\* Which API call of a pass a transient error hits (0: none).
FailChoices == IF apiErrors < MaxApiErrors THEN {0, 1, 2} ELSE {0}

-----------------------------------------------------------------------------
(* The remote API as the controller's client sees it.  A call fails when a *)
(* transient error hits it, when the object is gone, or (updates) when the *)
(* object sent carries a stale resource version.  Update writes the spec   *)
(* and annotations and keeps the stored status; UpdateStatus writes the    *)
(* status and keeps the stored spec.  Every successful write is followed   *)
(* by a watch event.                                                       *)

ApiCall(w, fail) ==
    [w EXCEPT !.calls = @ + 1,
              !.errs = IF w.calls + 1 = fail THEN @ + 1 ELSE @,
              !.ok = (w.calls + 1 # fail)]

UpdatePersistentVolume(w, v, obj, fresh, fail) ==
    LET c == ApiCall(w, fail)
    IN IF c.ok /\ fresh /\ w.av[v].exists
       THEN [c EXCEPT !.av[v] = [obj EXCEPT !.phase = w.av[v].phase],
                      !.ve[v] = TRUE]
       ELSE [c EXCEPT !.ok = FALSE]

UpdatePersistentVolumeStatus(w, v, obj, fresh, fail) ==
    LET c == ApiCall(w, fail)
    IN IF c.ok /\ fresh /\ w.av[v].exists
       THEN [c EXCEPT !.av[v].phase = obj.phase, !.ve[v] = TRUE]
       ELSE [c EXCEPT !.ok = FALSE]

CreatePersistentVolume(w, v, obj, fail) ==
    LET c == ApiCall(w, fail)
    IN IF c.ok /\ ~w.av[v].exists
       THEN [c EXCEPT !.av[v] = [obj EXCEPT !.phase = "Pending"], !.ve[v] = TRUE]
       ELSE [c EXCEPT !.ok = FALSE]

DeletePersistentVolume(w, v, fail) ==
    LET c == ApiCall(w, fail)
    IN IF c.ok /\ w.av[v].exists
       THEN [c EXCEPT !.av[v] = NoVolume, !.ve[v] = TRUE]
       ELSE [c EXCEPT !.ok = FALSE]

\* ok: the read succeeded (the claim may still be absent: not-found).
GetPersistentVolumeClaim(w, c, fail) == ApiCall(w, fail)

UpdatePersistentVolumeClaim(w, c, obj, fresh, fail) ==
    LET a == ApiCall(w, fail)
    IN IF a.ok /\ fresh /\ w.ac[c].exists
       THEN [a EXCEPT !.ac[c] = [obj EXCEPT !.phase = w.ac[c].phase],
                      !.ce[c] = TRUE]
       ELSE [a EXCEPT !.ok = FALSE]

UpdatePersistentVolumeClaimStatus(w, c, obj, fresh, fail) ==
    LET a == ApiCall(w, fail)
    IN IF a.ok /\ fresh /\ w.ac[c].exists
       THEN [a EXCEPT !.ac[c].phase = obj.phase, !.ce[c] = TRUE]
       ELSE [a EXCEPT !.ok = FALSE]

-----------------------------------------------------------------------------
(* The volume index: best-fit query over the indexed objects, which are    *)
(* the store's objects (the index holds the same pointers).                *)

\* The access-mode signatures that are supersets of the requested modes.
AcceptableSignatures(requested) == {s \in SUBSET AccessModes : requested \subseteq s}

\* Whether volume object pv can serve claim c (object claim).
Satisfies(pv, c, claim) ==
    /\ pv.capacity >= claim.request
    /\ pv.claimRef = NONE \/ pv.claimRef = c

\* Order inside a signature group and among the candidates: capacity, then name.
Before(w, a, b) ==
    \/ w.vs[a].capacity < w.vs[b].capacity
    \/ w.vs[a].capacity = w.vs[b].capacity /\ NameRank(a) < NameRank(b)

\* The first satisfying volume of each acceptable signature group.
SignatureCandidates(w, c, claim) ==
    {v \in w.idx :
        /\ w.vs[v].modes \in AcceptableSignatures(claim.modes)
        /\ Satisfies(w.vs[v], c, claim)
        /\ \A u \in w.idx :
              (w.vs[u].modes = w.vs[v].modes /\ Satisfies(w.vs[u], c, claim) /\ u # v)
                  => Before(w, v, u)}

\* NONE when no candidate exists.
FindBestMatchForClaim(w, c, claim) ==
    LET cands == SignatureCandidates(w, c, claim)
    IN IF cands = {} THEN NONE
       ELSE CHOOSE v \in cands : \A u \in cands \ {v} : Before(w, v, u)

-----------------------------------------------------------------------------
(* reconcileClaim.  Each branch yields the world after it, the status      *)
(* phase it returns and whether it returns an error.  The message is kept  *)
(* for the error reconcileClaim builds itself; an error passed on from an  *)
(* API call has the message of that call.                                  *)

Result(w, phase, err) ==
    [w |-> w, phase |-> phase, err |-> err, msg |-> IF err THEN "api call failed" ELSE ""]

\* A return with fmt.Errorf(format, arg).
Errorf(w, phase, format, arg) ==
    [w |-> w, phase |-> phase, err |-> TRUE, msg |-> format \o arg]

\* The same, without the write of the missing claim reference.
ClaimBoundBranchNoWrite(w, c, fail) ==
    LET v == w.cs[c].volumeName
    IN IF ~w.vs[v].exists
       THEN Result(w, "Pending", TRUE)
       ELSE IF w.vs[v].claimRef = NONE
            THEN Result([w EXCEPT !.vs[v].claimRef = c], "Bound", FALSE)
            ELSE Result(w, "Bound", FALSE)

\* The claim carries a volume name.
ClaimBoundBranch(w, c, fail) ==
    LET v == w.cs[c].volumeName
    IN IF ~w.vs[v].exists
       THEN Result(w, "Pending", TRUE)
       ELSE IF w.vs[v].claimRef = NONE
            THEN LET w1 == [w EXCEPT !.vs[v].claimRef = c]
                 IN Result(UpdatePersistentVolume(w1, v, w1.vs[v], ~w1.ve[v], fail),
                           "Bound", FALSE)
            ELSE Result(w, "Bound", FALSE)

\* A matching volume v was found: write the claim, then point the cached
\* volume at the claim.  On a failed write the rollback is applied to the
\* object the client returned, so the cached claim keeps the volume name.
ClaimSearchBranch(w, c, v, fail) ==
    LET w1 == [w EXCEPT !.cs[c].volumeName = v]
        w2 == UpdatePersistentVolumeClaim(w1, c, w1.cs[c], ~w1.ce[c], fail)
    IN IF ~w2.ok
       THEN Result(w2, "Pending", TRUE)
       ELSE Result([w2 EXCEPT !.vs[v].claimRef = c], "Pending", FALSE)

\* The same, without the claim reference.
NewUnreferencedVolumeTemplate(c, claim) ==
    [exists |-> TRUE, capacity |-> claim.request, modes |-> claim.modes,
     policy |-> "Delete", claimRef |-> NONE, phase |-> "Pending", recycle |-> "",
     delete |-> "", prov |-> "true", provFor |-> ClaimToProvisionableKey(c),
     qos |-> claim.qos]

\* The same, without the provisioning-required annotation.
NewUnmarkedVolumeTemplate(c, claim) ==
    [exists |-> TRUE, capacity |-> claim.request, modes |-> claim.modes,
     policy |-> "Delete", claimRef |-> c, phase |-> "Pending", recycle |-> "",
     delete |-> "", prov |-> "", provFor |-> ClaimToProvisionableKey(c),
     qos |-> claim.qos]

\* The volume object the provisioning rule creates for claim c.
NewPersistentVolumeTemplate(c, claim) ==
    [exists |-> TRUE, capacity |-> claim.request, modes |-> claim.modes,
     policy |-> "Delete", claimRef |-> c, phase |-> "Pending", recycle |-> "",
     delete |-> "", prov |-> "true", provFor |-> ClaimToProvisionableKey(c),
     qos |-> claim.qos]

\* The same, returning no error when no plugin is registered.
ClaimProvisionBranchSilent(w, c, fail) ==
    LET claim == w.cs[c]
    IN IF claim.qos = ""
       THEN Result(w, "Pending", FALSE)
       ELSE IF claim.qos \in provisionerPlugins
            THEN IF w.created >= MaxProvisioned
                 THEN Result([w EXCEPT !.blocked = TRUE], "Pending", FALSE)
                 ELSE LET n == GeneratedName(w.created + 1)
                          w1 == CreatePersistentVolume(
                                    [w EXCEPT !.created = @ + 1], n,
                                    NewPersistentVolumeTemplate(c, claim), fail)
                      IN Result(w1, "Pending", ~w1.ok)
            ELSE Result(w, "Pending", FALSE)

\* The same, without the early return for a claim that has no annotation.
ClaimProvisionBranchStrict(w, c, fail) ==
    LET claim == w.cs[c]
    IN IF FALSE
       THEN Result(w, "Pending", FALSE)
       ELSE IF claim.qos \in provisionerPlugins
            THEN IF w.created >= MaxProvisioned
                 THEN Result([w EXCEPT !.blocked = TRUE], "Pending", FALSE)
                 ELSE LET n == GeneratedName(w.created + 1)
                          w1 == CreatePersistentVolume(
                                    [w EXCEPT !.created = @ + 1], n,
                                    NewPersistentVolumeTemplate(c, claim), fail)
                      IN Result(w1, "Pending", ~w1.ok)
            ELSE Errorf(w, "Pending", "No provisioner found for qos request: ", claim.qos)

\* No match: provision when the claim's quality-of-service tag has a plugin.
ClaimProvisionBranch(w, c, fail) ==
    LET claim == w.cs[c]
    IN IF claim.qos = ""
       THEN Result(w, "Pending", FALSE)
       ELSE IF claim.qos \in provisionerPlugins
            THEN IF w.created >= MaxProvisioned
                 THEN Result([w EXCEPT !.blocked = TRUE], "Pending", FALSE)
                 ELSE LET n == GeneratedName(w.created + 1)
                          w1 == CreatePersistentVolume(
                                    [w EXCEPT !.created = @ + 1], n,
                                    NewPersistentVolumeTemplate(c, claim), fail)
                      IN Result(w1, "Pending", ~w1.ok)
            ELSE Errorf(w, "Pending", "No provisioner found for qos request: ", claim.qos)

\* The same, with a query that disregards the volumes' claim references.
reconcileClaimAnyVolume(w, c, fail) ==
    IF w.cs[c].volumeName # ""
    THEN ClaimBoundBranch(w, c, fail)
    ELSE LET fits == {v \in w.idx : /\ w.vs[v].capacity >= w.cs[c].request
                                    /\ w.cs[c].modes \subseteq w.vs[v].modes}
         IN IF fits # {}
            THEN ClaimSearchBranch(w, c, CHOOSE v \in fits : \A u \in fits : NameRank(v) <= NameRank(u), fail)
            ELSE ClaimProvisionBranch(w, c, fail)

\* The same, with a query that disregards the volumes' access modes.
reconcileClaimAnyModes(w, c, fail) ==
    IF w.cs[c].volumeName # ""
    THEN ClaimBoundBranch(w, c, fail)
    ELSE LET fits == {v \in w.idx : /\ w.vs[v].capacity >= w.cs[c].request
                                    /\ w.vs[v].claimRef \in {NONE, c}}
         IN IF fits # {}
            THEN ClaimSearchBranch(w, c, CHOOSE v \in fits : \A u \in fits : NameRank(v) <= NameRank(u), fail)
            ELSE ClaimProvisionBranch(w, c, fail)

reconcileClaim(w, c, fail) ==
    IF w.cs[c].volumeName # ""
    THEN ClaimBoundBranch(w, c, fail)
    ELSE LET v == FindBestMatchForClaim(w, c, w.cs[c])
         IN IF v # NONE
            THEN ClaimSearchBranch(w, c, v, fail)
            ELSE ClaimProvisionBranch(w, c, fail)

\* The claim's status is written when the reconciled phase differs from the
\* cached object's.
handleAddClaim(w, c, fail) ==
    IF ~w.cs[c].exists
    THEN w
    ELSE LET r == reconcileClaim(w, c, fail)
         IN IF r.w.cs[c].phase # r.phase
            THEN LET w1 == [r.w EXCEPT !.cs[c].phase = r.phase]
                 IN UpdatePersistentVolumeClaimStatus(w1, c, w1.cs[c], ~w1.ce[c], fail)
            ELSE r.w

handleDeleteClaim(w, c) == [w EXCEPT !.cs[c] = NoClaim]

-----------------------------------------------------------------------------
(* Helpers of reconcileVolume.  A volume object is a record, so            *)
(* pv[key] reads annotation key; "" is an absent key.                      *)

keyExists(key, pv) == pv[key] # ""

isAnnotationMatch(key, needle, pv) == IF pv[key] = "" THEN FALSE ELSE pv[key] = needle

isRecyclable(policy) == policy = "Delete" \/ policy = "Recycle"

pvRequiresRecycleOrDelete(pv) ==
    /\ pv.phase = "Released"
    /\ isRecyclable(pv.policy)
    /\ ~keyExists(pvRecycleRequired, pv)
    /\ ~keyExists(pvDeleteRequired, pv)

awaitingRecycleToComplete(pv) ==
    keyExists(pvRecycleRequired, pv) /\ ~isAnnotationMatch(pvRecycleRequired, Completed, pv)

recycleIsComplete(pv) == isAnnotationMatch(pvRecycleRequired, Completed, pv)

awaitingDeleteToComplete(pv) ==
    keyExists(pvDeleteRequired, pv) /\ ~isAnnotationMatch(pvDeleteRequired, Completed, pv)

deleteIsComplete(pv) == isAnnotationMatch(pvDeleteRequired, Completed, pv)

-----------------------------------------------------------------------------
(* reconcileVolume.  A result names the object the function returns:       *)
(* "P" the cached object, "R" the fresh object an update returned, "E" the *)
(* empty object the client returns with an error, "nil", or "panic" when   *)
(* the function itself faults.                                             *)

VResult(w, obj, phase, err) == [w |-> w, obj |-> obj, phase |-> phase, err |-> err]

\* The same, without looking at the busy marker.
markerIgnored(w, v) == TRUE

\* Whether a pass may launch an operation for v: no busy marker is installed.
markerFree(w, v) == v \notin w.locks

\* Install the busy marker and start the task, unless one is installed.
requestOperation(w, v, kind) ==
    IF markerFree(w, v)
    THEN IF Len(w.tasks[v]) >= MaxTasks
         THEN [w EXCEPT !.blocked = TRUE]
         ELSE [w EXCEPT !.locks = @ \cup {v},
                        !.tasks[v] = Append(@, [kind |-> kind, pc |-> "plugin",
                                                shared |-> TRUE])]
    ELSE w

\* The same, with the delete request for every recyclable policy.
reclaimAnnotationDelete(policy) ==
    IF policy \in {"Recycle", "Delete"} THEN pvDeleteRequired ELSE NONE

\* The annotation a newly released volume is stamped with.
reclaimAnnotation(policy) ==
    CASE policy = "Recycle" -> pvRecycleRequired
      [] policy = "Delete" -> pvDeleteRequired
      [] OTHER -> NONE

\* Released and recyclable: stamp the cached object and write it.
VolumeStampBranch(w, v, fail) ==
    LET key == reclaimAnnotation(w.vs[v].policy)
        w1 == IF key = NONE THEN w ELSE [w EXCEPT !.vs[v][key] = "true"]
        w2 == UpdatePersistentVolume(w1, v, w1.vs[v], ~w1.ve[v], fail)
    IN IF ~w2.ok
       THEN VResult(w2, "E", "Failed", TRUE)
       ELSE VResult(w2, "R", "Released", FALSE)

\* The same, without the comparison of the names.
VolumeBindCheckUnverified(w, v, c, claim) ==
    LET pv == w.vs[v]
    IN IF ~keyExists(pvProvisioningRequired, pv)
       THEN VResult(w, "P", "Bound", FALSE)
       ELSE IF isAnnotationMatch(pvProvisioningRequired, Completed, pv)
            THEN IF pv.provFor # ClaimToProvisionableKey(c)
                 THEN VResult(w, "P", "Failed", TRUE)
                 ELSE VResult(w, "P", "Bound", FALSE)
            ELSE VResult(requestOperation(w, v, "prov"), "P", "Pending", FALSE)

\* The claim was found: verify the bind, then the provisioning state.
VolumeBindCheck(w, v, c, claim) ==
    LET pv == w.vs[v]
    IN IF v # claim.volumeName
       THEN VResult(w, "P", "Failed", TRUE)
       ELSE IF ~keyExists(pvProvisioningRequired, pv)
            THEN VResult(w, "P", "Bound", FALSE)
            ELSE IF isAnnotationMatch(pvProvisioningRequired, Completed, pv)
                 THEN IF pv.provFor # ClaimToProvisionableKey(c)
                      THEN VResult(w, "P", "Failed", TRUE)
                      ELSE VResult(w, "P", "Bound", FALSE)
                 ELSE VResult(requestOperation(w, v, "prov"), "P", "Pending", FALSE)

\* Look the claim up in the store, else in the API.
VolumeClaimBranch(w, v, fail) ==
    LET c == w.vs[v].claimRef
    IN IF w.cs[c].exists
       THEN VolumeBindCheck(w, v, c, w.cs[c])
       ELSE LET w1 == GetPersistentVolumeClaim(w, c, fail)
            IN IF ~w1.ok
               THEN VResult(w1, "P", "Failed", TRUE)
               ELSE IF ~w1.ac[c].exists
                    THEN VResult(w1, "P", "Released", FALSE)
                    ELSE VolumeBindCheck(w1, v, c, w1.ac[c])

\* The same, leaving the claim reference in place.
VolumeRecycledBranchKeepRef(w, v, fail) == w

\* Recycle complete: clear the claim reference and write the volume; the
\* function then goes on to the delete check and the claim lookup.
VolumeRecycledBranch(w, v, fail) ==
    LET old == w.vs[v].claimRef
        w1 == [w EXCEPT !.vs[v].claimRef = NONE]
        w2 == UpdatePersistentVolume(w1, v, w1.vs[v], ~w1.ve[v], fail)
    IN IF ~w2.ok THEN [w2 EXCEPT !.vs[v].claimRef = old] ELSE w2

VolumeCompletedBranch(w, v, fail) ==
    LET w5 == IF recycleIsComplete(w.vs[v]) THEN VolumeRecycledBranch(w, v, fail) ELSE w
    IN IF recycleIsComplete(w.vs[v]) /\ ~w5.ok
       THEN VResult(w5, "P", "Failed", TRUE)
       ELSE IF deleteIsComplete(w5.vs[v])
            THEN LET w6 == DeletePersistentVolume(w5, v, fail)
                 IN IF ~w6.ok
                    THEN VResult(w6, "P", "Failed", TRUE)
                    ELSE VResult(w6, "nil", "Released", FALSE)
            ELSE IF w5.vs[v].claimRef = NONE
                 THEN VResult(w5, "panic", "", FALSE)
                 ELSE VolumeClaimBranch(w5, v, fail)

reconcileVolume(w, v, fail) ==
    LET pv == w.vs[v]
    IN IF pv.claimRef = NONE
       THEN VResult(w, "P", "Available", FALSE)
       ELSE IF pvRequiresRecycleOrDelete(pv)
            THEN VolumeStampBranch(w, v, fail)
            ELSE IF awaitingRecycleToComplete(pv)
                 THEN VResult(requestOperation(w, v, pvRecycleRequired), "P",
                              "Released", FALSE)
                 ELSE IF awaitingDeleteToComplete(pv)
                      THEN VResult(requestOperation(w, v, pvDeleteRequired), "P",
                                   "Released", FALSE)
                      ELSE VolumeCompletedBranch(w, v, fail)

\* The same, writing the status whether or not the phase changed.
VolumeStatusWriteAlways(r, v, fail) ==
    CASE r.obj = "P" ->
            LET w1 == [r.w EXCEPT !.vs[v].phase = r.phase]
            IN UpdatePersistentVolumeStatus(w1, v, w1.vs[v], ~w1.ve[v], fail)
      [] r.obj = "R" ->
            UpdatePersistentVolumeStatus(
                r.w, v, [r.w.av[v] EXCEPT !.phase = r.phase], TRUE, fail)
      [] r.obj = "E" -> [r.w EXCEPT !.calls = @ + 1, !.ok = FALSE]
      [] OTHER -> [r.w EXCEPT !.faulted = TRUE]

\* The status write of handleAddVolume, on the object reconcileVolume returned.
VolumeStatusWrite(r, v, fail) ==
    CASE r.obj = "P" ->
            IF r.w.vs[v].phase # r.phase
            THEN LET w1 == [r.w EXCEPT !.vs[v].phase = r.phase]
                 IN UpdatePersistentVolumeStatus(w1, v, w1.vs[v], ~w1.ve[v], fail)
            ELSE r.w
      [] r.obj = "R" ->
            IF r.w.av[v].phase # r.phase
            THEN UpdatePersistentVolumeStatus(
                     r.w, v, [r.w.av[v] EXCEPT !.phase = r.phase], TRUE, fail)
            ELSE r.w
      [] r.obj = "E" -> [r.w EXCEPT !.calls = @ + 1, !.ok = FALSE]
      [] OTHER -> [r.w EXCEPT !.faulted = TRUE]

handleAddVolume(w, v, fail) ==
    IF ~w.vs[v].exists
    THEN w
    ELSE VolumeStatusWrite(reconcileVolume([w EXCEPT !.idx = @ \cup {v}], v, fail),
                           v, fail)

handleDeleteVolume(w, v) == [w EXCEPT !.idx = @ \ {v}]

-----------------------------------------------------------------------------
(* The background tasks provisionVolume, recycleVolume, deleteVolume.      *)
(* A task holds the object pointer it was launched with; shared tells      *)
(* whether that is still the store's object.  The plugin call, the         *)
(* in-memory completion mark and the write-back are separate steps.        *)

RemoveAt(s, i) == [j \in 1..(Len(s) - 1) |-> IF j < i THEN s[j] ELSE s[j + 1]]

\* The deferred function: unlock and delete the marker.  Unlocking a
\* marker that is gone dereferences nil, outside any recover.
deferredUnlock(w, v) ==
    IF v \in w.locks
    THEN [w EXCEPT !.locks = @ \ {v}]
    ELSE [w EXCEPT !.crashed = TRUE]

finishTask(w, v, i) == deferredUnlock([w EXCEPT !.tasks[v] = RemoveAt(@, i)], v)

\* Whether provisionVolume gets as far as the plugin call.
hasProvisioner(pv) == pv.qos # "" /\ pv.qos \in provisionerPlugins

\* The plugin call returned: on success mark the object completed.
taskPluginReturned(w, v, i, ok) ==
    LET t == w.tasks[v][i]
    IN IF ~ok \/ (t.kind = pvProvisioningRequired /\ ~hasProvisioner(w.av[v]))
       THEN finishTask(w, v, i)
       ELSE LET w1 == IF t.shared THEN [w EXCEPT !.vs[v][t.kind] = Completed] ELSE w
            IN [w1 EXCEPT !.tasks[v][i].pc = "marked"]

\* The write-back of the completion mark, and the task's end.
taskWriteBack(w, v, i, fail) ==
    LET t == w.tasks[v][i]
        w1 == IF t.shared
              THEN UpdatePersistentVolume(w, v, w.vs[v], ~w.ve[v], fail)
              ELSE UpdatePersistentVolume(w, v, w.av[v], FALSE, fail)
    IN IF ~w1.ok
       THEN LET w2 == IF t.shared /\ t.kind # pvProvisioningRequired
                      THEN [w1 EXCEPT !.vs[v][t.kind] = "true"]
                      ELSE w1
            IN finishTask(w2, v, i)
       ELSE IF t.kind = pvProvisioningRequired
            THEN finishTask([w1 EXCEPT !.locks = @ \ {v}], v, i)
            ELSE finishTask(w1, v, i)

-----------------------------------------------------------------------------
(* Actions. *)

Orphan(ts) == [j \in 1..Len(ts) |-> [ts[j] EXCEPT !.shared = FALSE]]

\* The volume informer delivers the pending event: the store takes the
\* API's copy (or drops the object) and the handler runs.
DeliverVolume(v) ==
    /\ ~crashed
    /\ volumeEvent[v]
    /\ \E fail \in FailChoices :
          LET w0 == [Now EXCEPT !.ve[v] = FALSE, !.tasks[v] = Orphan(@)]
          IN Commit(IF apiVolumes[v].exists
                    THEN handleAddVolume([w0 EXCEPT !.vs[v] = apiVolumes[v]], v, fail)
                    ELSE handleDeleteVolume([w0 EXCEPT !.vs[v] = NoVolume], v))

\* The periodic resync re-delivers the cached object.
ResyncVolume(v) ==
    /\ ~crashed
    /\ volumeStore[v].exists
    /\ \E fail \in FailChoices : Commit(handleAddVolume(Now, v, fail))

DeliverClaim(c) ==
    /\ ~crashed
    /\ claimEvent[c]
    /\ \E fail \in FailChoices :
          LET w0 == [Now EXCEPT !.ce[c] = FALSE]
          IN Commit(IF apiClaims[c].exists
                    THEN handleAddClaim([w0 EXCEPT !.cs[c] = apiClaims[c]], c, fail)
                    ELSE handleDeleteClaim(w0, c))

ResyncClaim(c) ==
    /\ ~crashed
    /\ claimStore[c].exists
    /\ \E fail \in FailChoices : Commit(handleAddClaim(Now, c, fail))

PluginReturns(v, ok) ==
    /\ ~crashed
    /\ \E i \in 1..Len(tasks[v]) :
          /\ tasks[v][i].pc = "plugin"
          /\ Commit(taskPluginReturned(Now, v, i, ok))

TaskWritesBack(v) ==
    /\ ~crashed
    /\ \E i \in 1..Len(tasks[v]) :
          /\ tasks[v][i].pc = "marked"
          /\ \E fail \in FailChoices \cap {0, 1} :
                Commit(taskWriteBack(Now, v, i, fail))

\* A user deletes a claim through the API.
UserDeletesClaim(c) ==
    /\ apiClaims[c].exists
    /\ apiClaims' = [apiClaims EXCEPT ![c] = NoClaim]
    /\ claimEvent' = [claimEvent EXCEPT ![c] = TRUE]
    /\ UNCHANGED <<apiVolumes, volumeStore, claimStore, volumeEvent, volumeIndex,
                   locks, tasks, apiErrors, created, faulted, crashed,
                   stopChannels, channels, lock, provisionedClaims, watcher>>

-----------------------------------------------------------------------------
(* Run and Stop.  A channel is its position in the sequence of channels    *)
(* made; the control loop it was handed to runs until it is closed.        *)

\* A controller that was never run (a nil map has no entries).
NoChannels == [n \in LoopNames |-> 0]

\* make(chan struct{}), stored under name, and the loop started on it.
StartLoop(w, name) ==
    IF Len(w.chans) >= MaxChannels
    THEN [w EXCEPT !.blocked = TRUE]
    ELSE [w EXCEPT !.chans = Append(@, [loop |-> name, closes |-> 0]),
                   !.stop[name] = Len(w.chans) + 1]

\* The same, without the checks for an existing entry.
RunUnchecked(w) == StartLoop(StartLoop(w, "volumes"), "claims")

Run(w) ==
    LET w1 == IF w.stop["volumes"] = 0 THEN StartLoop(w, "volumes") ELSE w
    IN IF w1.stop["claims"] = 0 THEN StartLoop(w1, "claims") ELSE w1

\* close(stopChan) and delete(stopChannels, name) for every entry.
Stop(w) ==
    [w EXCEPT !.chans = [i \in DOMAIN w.chans |->
                            IF \E n \in LoopNames : w.stop[n] = i
                            THEN [w.chans[i] EXCEPT !.closes = @ + 1]
                            ELSE w.chans[i]],
              !.stop = NoChannels]

\* The fields of a controller on which Run has been called once.
Started == Run([stop |-> NoChannels, chans |-> <<>>, blocked |-> FALSE])

RunCalled == Commit(Run(Now))

StopCalled == Commit(Stop(Now))

\* The control loop named n is running: a channel handed to it is open.
LoopRuns(n) == \E i \in DOMAIN channels : channels[i].loop = n /\ channels[i].closes = 0

-----------------------------------------------------------------------------
(* Initial states: a controller just constructed and run (empty stores,   *)
(* no tasks) against an API that already holds the objects; the initial    *)
(* list delivers each as an event.                                         *)

Volume(cap, modes, policy, ref, phase) ==
    [NoVolume EXCEPT !.exists = TRUE, !.capacity = cap, !.modes = modes,
                     !.policy = policy, !.claimRef = ref, !.phase = phase]

Claim(req, modes, qos, vol, phase) ==
    [exists |-> TRUE, request |-> req, modes |-> modes, qos |-> qos,
     volumeName |-> vol, phase |-> phase, prov |-> ""]

InitObjects(vols, claims, errs) ==
    /\ apiVolumes = vols
    /\ apiClaims = claims
    /\ volumeStore = [v \in VolumeNames |-> NoVolume]
    /\ claimStore = [c \in ClaimNames |-> NoClaim]
    /\ volumeEvent = [v \in VolumeNames |-> vols[v].exists]
    /\ claimEvent = [c \in ClaimNames |-> claims[c].exists]
    /\ volumeIndex = {}
    /\ locks = {}
    /\ tasks = [v \in VolumeNames |-> <<>>]
    /\ apiErrors = errs
    /\ created = 0
    /\ faulted = FALSE
    /\ crashed = FALSE
    /\ lock = ""
    /\ provisionedClaims = {}
    /\ watcher = NotWatching

\* The same, with both informer loops started.
InitWith(vols, claims, errs) ==
    /\ InitObjects(vols, claims, errs)
    /\ stopChannels = Started.stop
    /\ channels = Started.chans

-----------------------------------------------------------------------------
(* Binding: user-created volumes and pending claims, no reclaim.           *)

Capacities == {5, 10}

NoVolumes == [v \in VolumeNames |-> NoVolume]

InitBind ==
    \E cap1 \in Capacities, cap2 \in Capacities \cup {0}, r1 \in Capacities,
       r2 \in Capacities :
        InitWith([NoVolumes EXCEPT
                     !["pv1"] = Volume(cap1, {"RWO"}, "Retain", NONE, "Pending"),
                     !["pv2"] = IF cap2 = 0 THEN NoVolume
                                ELSE Volume(cap2, {"RWO", "ROX"}, "Retain", NONE,
                                            "Pending")],
                 [c \in ClaimNames |->
                     Claim(IF c = "c1" THEN r1 ELSE r2, {"RWO"}, "", "", "Pending")],
                 0)

NextBind ==
    \/ \E v \in VolumeNames : DeliverVolume(v)
    \/ \E v \in VolumeNames : ResyncVolume(v)
    \/ \E c \in ClaimNames : DeliverClaim(c)
    \/ \E c \in ClaimNames : ResyncClaim(c)

SpecBind == InitBind /\ [][NextBind]_vars

-----------------------------------------------------------------------------
(* Claims on binding. *)

\* The claims the API reports Bound to volume v.
ReportedBound(v) ==
    {c \in ClaimNames : /\ apiClaims[c].exists
                        /\ apiClaims[c].phase = "Bound"
                        /\ apiClaims[c].volumeName = v}

\* C1: in every reachable state at most one claim is reported Bound for any
\* given volume, also when two pending claims both fit one free volume.
C1_AtMostOneBoundClaim ==
    \A v \in VolumeNames : Cardinality(ReportedBound(v)) <= 1

\* No undelivered event and no operation in flight.
Quiescent ==
    /\ \A v \in VolumeNames : ~volumeEvent[v] /\ tasks[v] = <<>>
    /\ \A c \in ClaimNames : ~claimEvent[c]

\* C2: at every quiescent point, for every claim C and volume V stored in the
\* API, C's bound volume name is V exactly when V's claim reference is C.
C2_BindingSymmetry ==
    Quiescent =>
        \A c \in ClaimNames, v \in VolumeNames :
            (apiClaims[c].exists /\ apiVolumes[v].exists) =>
                (apiClaims[c].volumeName = v <=> apiVolumes[v].claimRef = c)

\* A volume created with its claim reference already naming c1, and pending
\* claims that request what it offers.
InitPrebound ==
    \E cap1 \in Capacities, cap2 \in Capacities \cup {0}, r1 \in Capacities :
        InitWith([NoVolumes EXCEPT
                     !["pv1"] = Volume(cap1, {"RWO"}, "Retain", "c1", "Pending"),
                     !["pv2"] = IF cap2 = 0 THEN NoVolume
                                ELSE Volume(cap2, {"RWO"}, "Retain", NONE, "Pending")],
                 [c \in ClaimNames |->
                     Claim(IF c = "c1" THEN r1 ELSE 5, {"RWO"}, "", "", "Pending")],
                 0)

SpecPrebound == InitPrebound /\ [][NextBind]_vars

\* Volume v's claim reference, in the API or in the cache, names a claim
\* other than c.
NamesAnother(v, c) ==
    \/ apiVolumes[v].exists /\ apiVolumes[v].claimRef \notin {NONE, c}
    \/ volumeStore[v].exists /\ volumeStore[v].claimRef \notin {NONE, c}

InitPreset ==
    \E cap1 \in Capacities, r1 \in Capacities, m1 \in {{"RWO"}, {"RWX"}} :
        InitWith([NoVolumes EXCEPT
                     !["pv1"] = Volume(cap1, {"RWO"}, "Retain", NONE, "Pending")],
                 [c \in ClaimNames |->
                     IF c = "c1" THEN Claim(r1, m1, "", "pv1", "Pending")
                     ELSE Claim(5, {"RWO"}, "", "", "Pending")],
                 0)

SpecPreset == InitPreset /\ [][NextBind]_vars

\* C6: whenever a claim C is reported Bound to a volume V, V's capacity is at
\* least C's request and V's access modes include C's, also when C's bound
\* volume name was already set the first time C was reconciled.
C6_BoundVolumeSatisfiesClaim ==
    \A c \in ClaimNames, v \in VolumeNames :
        (/\ apiClaims[c].exists /\ apiClaims[c].phase = "Bound"
         /\ apiClaims[c].volumeName = v /\ apiVolumes[v].exists)
            => /\ apiVolumes[v].capacity >= apiClaims[c].request
               /\ apiClaims[c].modes \subseteq apiVolumes[v].modes

-----------------------------------------------------------------------------
(* Binding under fair scheduling: the informers deliver every pending      *)
(* event and the resync timer keeps re-delivering every cached object.     *)
(* Every API call that is not rejected for a stale version succeeds.       *)

InitLive ==
    \E cap1 \in Capacities, cap2 \in Capacities \cup {0}, r1 \in Capacities :
        InitWith([NoVolumes EXCEPT
                     !["pv1"] = Volume(cap1, {"RWO"}, "Retain", NONE, "Pending"),
                     !["pv2"] = IF cap2 = 0 THEN NoVolume
                                ELSE Volume(cap2, {"RWO", "ROX"}, "Retain", NONE,
                                            "Pending")],
                 [c \in ClaimNames |->
                     IF c = "c1" THEN Claim(r1, {"RWO"}, "", "", "Pending")
                     ELSE NoClaim],
                 MaxApiErrors)

FairDelivery ==
    /\ \A v \in VolumeNames : WF_vars(DeliverVolume(v)) /\ WF_vars(ResyncVolume(v))
    /\ \A c \in ClaimNames : WF_vars(DeliverClaim(c)) /\ WF_vars(ResyncClaim(c))

SpecBindFair == InitLive /\ [][NextBind]_vars /\ FairDelivery

\* Claim c is pending and a free volume that serves it exists in the API.
PendingWithMatch(c) ==
    /\ apiClaims[c].exists /\ apiClaims[c].volumeName = ""
    /\ \E v \in VolumeNames :
          /\ apiVolumes[v].exists /\ apiVolumes[v].claimRef = NONE
          /\ apiVolumes[v].capacity >= apiClaims[c].request
          /\ apiClaims[c].modes \subseteq apiVolumes[v].modes

\* The claim's volume name is written, the volume's claim reference is not.
HalfBound(c) ==
    /\ apiClaims[c].exists /\ apiClaims[c].volumeName \in VolumeNames
    /\ apiVolumes[apiClaims[c].volumeName].claimRef = NONE

\* Claim c is Bound, its volume names it in the API and is reported Bound.
FullyBound(c) ==
    /\ apiClaims[c].exists /\ apiClaims[c].phase = "Bound"
    /\ apiClaims[c].volumeName \in VolumeNames
    /\ apiVolumes[apiClaims[c].volumeName].claimRef = c
    /\ apiVolumes[apiClaims[c].volumeName].phase = "Bound"

-----------------------------------------------------------------------------
(* Reclaim: a bound pair whose claim the user deletes.                     *)

BoundVolume(policy) == Volume(5, {"RWO"}, policy, "c1", "Bound")

\* pv1 bound to c1 under one of the policies; c2 as given.
InitBoundPair(policies, others, errs) ==
    \E policy \in policies, c2 \in others :
        InitWith([NoVolumes EXCEPT !["pv1"] = BoundVolume(policy)],
                 [c \in ClaimNames |->
                     IF c = "c1" THEN Claim(5, {"RWO"}, "", "pv1", "Bound") ELSE c2],
                 errs)

PluginSucceeds(v) == PluginReturns(v, TRUE)

PluginFails(v) == PluginReturns(v, FALSE)

NextReclaim ==
    \/ NextBind
    \/ \E c \in ClaimNames : UserDeletesClaim(c)
    \/ \E v \in VolumeNames : PluginSucceeds(v)
    \/ \E v \in VolumeNames : PluginFails(v)
    \/ \E v \in VolumeNames : TaskWritesBack(v)

\* A claim that carries a quality-of-service tag with a registered plugin and
\* asks for more than any volume offers.
ProvisionedClaim == Claim(10, {"RWO"}, "foo", "", "Pending")

\* Either a bound pair under any policy, with a second claim absent or
\* pending, or a lone claim to provision for; transient API errors and plugin
\* failures happen.
InitReclaim ==
    \/ InitBoundPair({"Retain", "Recycle", "Delete"},
                     {NoClaim, Claim(5, {"RWO"}, "", "", "Pending")}, 0)
    \/ InitWith(NoVolumes,
                [c \in ClaimNames |-> IF c = "c2" THEN ProvisionedClaim ELSE NoClaim],
                0)

SpecReclaim == InitReclaim /\ [][NextReclaim]_vars

\* C4: at any instant at most one provision, recycle or delete task is in
\* flight for a volume, and a pass that finds the volume's busy marker
\* launches no second task.
C4_OneTaskPerVolume ==
    \A v \in VolumeNames :
        /\ Len(tasks[v]) <= 1
        /\ tasks[v] # <<>> => v \in locks

\* Witness of C4: a recycle or delete task is in flight and a later event
\* for its volume, still awaiting completion, was handled (the task's object
\* is no longer the cached one) without a second task being launched.
C4_Witness ==
    \E v \in VolumeNames :
        /\ Len(tasks[v]) = 1 /\ v \in locks
        /\ ~tasks[v][1].shared
        /\ ~volumeEvent[v]
        /\ \/ awaitingRecycleToComplete(volumeStore[v])
           \/ awaitingDeleteToComplete(volumeStore[v])

-----------------------------------------------------------------------------
(* Provisioning: c2 is a claim to provision for; c1 is an ordinary pending  *)
(* claim that the provisioned volume would serve.                          *)

InitProvision ==
    \E r1 \in Capacities :
        InitWith(NoVolumes,
                 [c \in ClaimNames |->
                     IF c = "c1" THEN Claim(r1, {"RWO"}, "", "", "Pending")
                     ELSE ProvisionedClaim],
                 0)

\* The user may delete the claim the volume is provisioned for.
NextProvision ==
    \/ NextBind
    \/ UserDeletesClaim("c2")
    \/ \E v \in VolumeNames : PluginSucceeds(v)
    \/ \E v \in VolumeNames : PluginFails(v)
    \/ \E v \in VolumeNames : TaskWritesBack(v)

SpecProvision == InitProvision /\ [][NextProvision]_vars

\* C5: a volume carrying provisioned-for = key(C) is never bound to a claim
\* other than C: no claim D # C holds its name as bound volume name while the
\* annotation is present.
C5_ProvisionedLineage ==
    \A v \in VolumeNames, d \in ClaimNames :
        (apiVolumes[v].exists /\ apiVolumes[v].provFor \notin {NONE, d})
            => (apiClaims[d].volumeName # v /\ claimStore[d].volumeName # v)

\* Witness of C5: the volume provisioned for c2 is indexed and large enough
\* for the pending claim c1, whose query does not return it.
C5_Witness ==
    /\ apiVolumes["pvp1"].provFor = "c2"
    /\ "pvp1" \in volumeIndex
    /\ claimStore["c1"].exists /\ claimStore["c1"].volumeName = ""
    /\ volumeStore["pvp1"].capacity >= claimStore["c1"].request
    /\ claimStore["c1"].modes \subseteq volumeStore["pvp1"].modes
    /\ FindBestMatchForClaim(Now, "c1", claimStore["c1"]) = NONE

-----------------------------------------------------------------------------
(* Reclaim under fair scheduling with plugins that succeed: events are     *)
(* delivered, cached objects are resynced, a plugin call returns and a     *)
(* task gets to write back.                                                *)

NextReclaimOk ==
    \/ NextBind
    \/ \E c \in ClaimNames : UserDeletesClaim(c)
    \/ \E v \in VolumeNames : PluginSucceeds(v)
    \/ \E v \in VolumeNames : TaskWritesBack(v)

FairTasks ==
    \A v \in VolumeNames : WF_vars(PluginSucceeds(v)) /\ WF_vars(TaskWritesBack(v))

\* A second claim, if any, asks for more than the volume offers.
Bystanders == {NoClaim, Claim(10, {"RWO"}, "", "", "Pending")}

InitRecycle == InitBoundPair({"Recycle"}, Bystanders, MaxApiErrors)

SpecRecycle == InitRecycle /\ [][NextReclaimOk]_vars /\ FairDelivery /\ FairTasks

\* The phases that may follow phase p in the recycle cycle.
RecyclePhasesAfter(p) ==
    CASE p = "Bound" -> {"Bound", "Released"}
      [] p = "Released" -> {"Released", "Available"}
      [] p = "Available" -> {"Available"}
      [] OTHER -> {}

\* C8: a Bound volume under policy Recycle whose claim is deleted goes
\* Bound -> Released -> Available with a recycle plugin that succeeds: it is
\* never removed and never reported Failed, and it ends with its claim
\* reference cleared in the API.
C8_RecycleCycle ==
    /\ [][/\ apiVolumes'["pv1"].exists
          /\ apiVolumes'["pv1"].phase \in RecyclePhasesAfter(apiVolumes["pv1"].phase)]_vars
    /\ (~apiClaims["c1"].exists)
          ~> [](apiVolumes["pv1"].phase = "Available" /\ apiVolumes["pv1"].claimRef = NONE)

\* Witness of C8: the claim is gone, the recycler has run to completion and
\* the volume is Available with its claim reference cleared.
C8_Witness ==
    /\ ~apiClaims["c1"].exists
    /\ apiVolumes["pv1"].phase = "Available" /\ apiVolumes["pv1"].claimRef = NONE
    /\ recycleIsComplete(apiVolumes["pv1"])
    /\ Quiescent

InitDelete == InitBoundPair({"Delete"}, Bystanders, MaxApiErrors)

SpecDelete == InitDelete /\ [][NextReclaimOk]_vars /\ FairDelivery /\ FairTasks

\* C10: a Bound volume under policy Delete whose claim is deleted is, with a
\* delete plugin that succeeds, eventually removed from the API, and the
\* DELETE request is issued only after the delete-completed annotation has
\* been written for it.
C10_DeleteCycle ==
    /\ [][(apiVolumes["pv1"].exists /\ ~apiVolumes'["pv1"].exists)
             => deleteIsComplete(apiVolumes["pv1"])]_vars
    /\ (~apiClaims["c1"].exists) ~> [](~apiVolumes["pv1"].exists)

\* A recycled volume and a second claim, pending from the start, that the
\* volume serves once it is free again.
InitRebind ==
    InitBoundPair({"Recycle"}, {Claim(5, {"RWO"}, "", "", "Pending")}, MaxApiErrors)

SpecRebind == InitRebind /\ [][NextReclaimOk]_vars /\ FairDelivery /\ FairTasks

\* Volume v is bound to the live claim c in the API, both ways.
BoundTo(v, c) ==
    /\ apiVolumes[v].exists /\ apiVolumes[v].claimRef = c
    /\ apiClaims[c].exists /\ apiClaims[c].volumeName = v

\* C9: after a completed recycle cycle an Available volume carries no
\* recycle-required or delete-required annotation, and a new claim binds to
\* it stably: while the new claim exists the volume reaches Bound, and no
\* later pass clears its claim reference or runs the recycler on it.
C9_RecycledVolumeRebinds ==
    /\ [](\A v \in VolumeNames :
            (apiVolumes[v].exists /\ apiVolumes[v].phase = "Available")
                => (~keyExists(pvRecycleRequired, apiVolumes[v])
                    /\ ~keyExists(pvDeleteRequired, apiVolumes[v])))
    /\ [][\A v \in VolumeNames :
            (BoundTo(v, "c2") /\ apiClaims'["c2"].exists)
                => (apiVolumes'[v].claimRef = "c2" /\ tasks'[v] = <<>>)]_vars
    /\ BoundTo("pv1", "c2") ~> (apiVolumes["pv1"].phase = "Bound")

-----------------------------------------------------------------------------
(* Provisioning under fair scheduling with a plugin that succeeds: c2      *)
(* carries a registered quality-of-service tag and no volume serves it.    *)

\* A user volume, if any, is too small for the claim.
InitProvisionLive ==
    \E cap1 \in {0, 5} :
        InitWith([NoVolumes EXCEPT
                     !["pv1"] = IF cap1 = 0 THEN NoVolume
                                ELSE Volume(cap1, {"RWO"}, "Retain", NONE, "Pending")],
                 [c \in ClaimNames |-> IF c = "c2" THEN ProvisionedClaim ELSE NoClaim],
                 MaxApiErrors)

NextProvisionOk ==
    \/ NextBind
    \/ \E v \in VolumeNames : PluginSucceeds(v)
    \/ \E v \in VolumeNames : TaskWritesBack(v)

SpecProvisionFair ==
    InitProvisionLive /\ [][NextProvisionOk]_vars /\ FairDelivery /\ FairTasks

\* Volume v was provisioned for claim c and both are reported Bound to each
\* other.
ProvisionedAndBound(v, c) ==
    /\ apiVolumes[v].exists
    /\ apiVolumes[v].provFor = ClaimToProvisionableKey(c)
    /\ apiVolumes[v].claimRef = c
    /\ apiVolumes[v].phase = "Bound"
    /\ apiClaims[c].phase = "Bound"
    /\ apiClaims[c].volumeName = v

\* C11: for a claim with a quality-of-service tag registered to a plugin that
\* succeeds and with no matching volume, eventually a volume with
\* provisioned-for = key(claim) and claim reference = the claim reaches Bound,
\* and the claim reaches Bound with that volume's name as bound volume name.
C11_ProvisionedClaimBound ==
    <>(\E v \in VolumeNames : ProvisionedAndBound(v, "c2"))

\* The "required" annotations volume object pv carries.
RequiredAnnotations(pv) ==
    {key \in {pvProvisioningRequired, pvRecycleRequired, pvDeleteRequired} :
        keyExists(key, pv)}

\* C12: in every reachable state no volume carries more than one of the
\* annotations provisioning-required, recycle-required and delete-required.
C12_OneRequiredAnnotation ==
    \A v \in VolumeNames :
        apiVolumes[v].exists => Cardinality(RequiredAnnotations(apiVolumes[v])) <= 1

-----------------------------------------------------------------------------
(* Re-delivery at a fixed point: a bound pair under any policy next to a   *)
(* free volume and a pending claim the free volume is too small for.       *)

InitIdle ==
    \E policy \in {"Retain", "Recycle", "Delete"}, cap2 \in {0, 5}, r2 \in {0, 10} :
        InitWith([NoVolumes EXCEPT
                     !["pv1"] = BoundVolume(policy),
                     !["pv2"] = IF cap2 = 0 THEN NoVolume
                                ELSE Volume(cap2, {"RWO"}, "Retain", NONE, "Pending")],
                 [c \in ClaimNames |->
                     IF c = "c1" THEN Claim(5, {"RWO"}, "", "pv1", "Bound")
                     ELSE IF r2 = 0 THEN NoClaim
                          ELSE Claim(r2, {"RWO"}, "", "", "Pending")],
                 0)

SpecIdle == InitIdle /\ [][NextReclaim]_vars

\* The cached object is the API's copy and no event for it is undelivered.
SyncedVolume(v) == ~volumeEvent[v] /\ volumeStore[v] = apiVolumes[v]

SyncedClaim(c) == ~claimEvent[c] /\ claimStore[c] = apiClaims[c]

\* The fixed points of the two reconcilers.
BoundPair(v, c) ==
    /\ SyncedVolume(v) /\ SyncedClaim(c)
    /\ apiVolumes[v].exists /\ apiClaims[c].exists
    /\ apiVolumes[v].claimRef = c /\ apiVolumes[v].phase = "Bound"
    /\ apiClaims[c].volumeName = v /\ apiClaims[c].phase = "Bound"

AvailableVolume(v) ==
    /\ SyncedVolume(v) /\ apiVolumes[v].exists
    /\ apiVolumes[v].claimRef = NONE /\ apiVolumes[v].phase = "Available"

ReleasedRetained(v) ==
    /\ SyncedVolume(v) /\ apiVolumes[v].exists
    /\ apiVolumes[v].phase = "Released" /\ apiVolumes[v].policy = "Retain"
    /\ apiVolumes[v].claimRef \in ClaimNames
    /\ ~apiClaims[apiVolumes[v].claimRef].exists
    /\ ~claimStore[apiVolumes[v].claimRef].exists

PendingUnmatched(c) ==
    /\ SyncedClaim(c) /\ apiClaims[c].exists
    /\ apiClaims[c].volumeName = "" /\ apiClaims[c].phase = "Pending"
    /\ apiClaims[c].qos = ""
    /\ \A v \in VolumeNames :
          /\ SyncedVolume(v)
          /\ ~(/\ apiVolumes[v].exists /\ apiVolumes[v].claimRef \in {NONE, c}
               /\ apiVolumes[v].capacity >= apiClaims[c].request
               /\ apiClaims[c].modes \subseteq apiVolumes[v].modes)

\* A pass that ends in world w wrote nothing to the API: no object changed,
\* none was created or removed, and no watch event was raised.
NoWrites(w) ==
    /\ w.av = apiVolumes /\ w.ac = apiClaims
    /\ w.ve = volumeEvent /\ w.ce = claimEvent

\* C13: re-delivering an event for a claim or volume that is at its fixed
\* point (a Bound pair, an Available volume, a Released volume under Retain, a
\* Pending claim with no match and no quality-of-service tag) results in zero
\* API writes.
C13_FixedPointNoWrites ==
    /\ \A v \in VolumeNames, c \in ClaimNames :
          BoundPair(v, c) => /\ NoWrites(handleAddVolume(Now, v, 0))
                             /\ NoWrites(handleAddClaim(Now, c, 0))
    /\ \A v \in VolumeNames :
          (AvailableVolume(v) \/ ReleasedRetained(v))
              => NoWrites(handleAddVolume(Now, v, 0))
    /\ \A c \in ClaimNames :
          PendingUnmatched(c) => NoWrites(handleAddClaim(Now, c, 0))

\* Witness of C13: a Bound pair, an Available volume and a Pending claim
\* that no volume serves are all at their fixed points, every event handled.
C13_Witness ==
    /\ BoundPair("pv1", "c1")
    /\ AvailableVolume("pv2")
    /\ PendingUnmatched("c2")

-----------------------------------------------------------------------------
(* The volume index of package petco (genericPersistentVolumeIndex) and    *)
(* the controller that feeds it.  One map holds, under an access-mode      *)
(* string, the volumes of that signature sorted by size and, under a       *)
(* volume's UID, the volume itself.  A volume's access modes follow from   *)
(* its source.  The index holds object pointers: an entry is shared while  *)
(* it is the store's object and keeps the old object once the reflector    *)
(* has replaced it.                                                        *)

PetcoSources == {"AWS", "GCE", "NFS"}

NoPetcoVolume ==
    [exists |-> FALSE, uid |-> "", capacity |-> 0, source |-> "none", claimRef |-> NONE]

PetcoVolume(uid, cap, source, ref) ==
    [exists |-> TRUE, uid |-> uid, capacity |-> cap, source |-> source, claimRef |-> ref]

GetAccessModeType(source) ==
    CASE source = "AWS" -> {"RWO"}
      [] source = "GCE" -> {"RWO", "ROX"}
      [] source = "NFS" -> {"RWO", "ROX", "RWX"}
      [] OTHER -> {}

GetAccessModesAsString(modes) ==
    (IF "RWO" \in modes THEN "RWO" ELSE "")
        \o (IF "ROX" \in modes THEN "ROX" ELSE "")
        \o (IF "RWX" \in modes THEN "RWX" ELSE "")

\* PersistentVolumeComparator.Less
Less(a, b) == a.capacity < b.capacity

\* Sink element i of s towards the front while it is less than its neighbour.
RECURSIVE Sink(_, _)
Sink(s, i) ==
    IF i > 1 /\ Less(s[i], s[i - 1])
    THEN Sink([s EXCEPT ![i] = s[i - 1], ![i - 1] = s[i]], i - 1)
    ELSE s

\* sort.Sort on a short slice: insertion sort.
RECURSIVE InsertionSort(_, _)
InsertionSort(s, i) == IF i > Len(s) THEN s ELSE InsertionSort(Sink(s, i), i + 1)

\* An index entry: the pointer to a volume object.
Entry(volume) ==
    [uid |-> volume.uid, capacity |-> volume.capacity, source |-> volume.source,
     claimRef |-> volume.claimRef, shared |-> TRUE]

Exists(cache, volume) == volume.uid \in DOMAIN cache

Add(cache, volume) ==
    LET modesStr == GetAccessModesAsString(GetAccessModeType(volume.source))
        c1 == IF modesStr \in DOMAIN cache THEN cache ELSE (modesStr :> <<>>) @@ cache
        c2 == IF ~Exists(c1, volume)
              THEN [((volume.uid :> <<Entry(volume)>>) @@ c1)
                       EXCEPT ![modesStr] = Append(@, Entry(volume))]
              ELSE c1
    IN [c2 EXCEPT ![modesStr] = InsertionSort(@, 2)]

\* nil
NoMatch == [uid |-> NONE, capacity |-> 0, source |-> "none", claimRef |-> NONE,
            shared |-> FALSE]

\* The first volume of the claim's own access-mode string that is large enough.
Match(cache, claim) ==
    LET desiredModes == GetAccessModesAsString(claim.modes)
        volumes == IF desiredModes \in DOMAIN cache THEN cache[desiredModes] ELSE <<>>
        fits == {i \in 1..Len(volumes) : volumes[i].capacity >= claim.request}
    IN IF fits = {} THEN NoMatch
       ELSE volumes[CHOOSE i \in fits : \A j \in fits : i <= j]

\* The reflector replaced the store's object for uid: its entries keep the
\* old object.
OrphanEntries(cache, uid) ==
    [k \in DOMAIN cache |->
        [i \in 1..Len(cache[k]) |->
            IF cache[k][i].uid = uid THEN [cache[k][i] EXCEPT !.shared = FALSE]
            ELSE cache[k][i]]]

\* A write to the claim reference of the store's object for uid, as seen
\* through the index entries that point to that object.
ClearSharedRef(cache, uid) ==
    [k \in DOMAIN cache |->
        [i \in 1..Len(cache[k]) |->
            IF cache[k][i].uid = uid /\ cache[k][i].shared
            THEN [cache[k][i] EXCEPT !.claimRef = NONE]
            ELSE cache[k][i]]]

\* client.UpdateVolume: rejected for a stale resource version.
UpdateVolume(w, u, obj, fail) ==
    LET c == ApiCall(w, fail)
    IN IF c.ok /\ ~w.ve[u] /\ w.av[u].exists
       THEN [c EXCEPT !.av[u] = obj, !.ve[u] = TRUE]
       ELSE [c EXCEPT !.ok = FALSE]

\* client.GetClaim: ok when the read succeeds and the claim exists.
GetClaim(w, c, fail) ==
    LET a == ApiCall(w, fail)
    IN [a EXCEPT !.ok = (a.ok /\ w.ac[c].exists)]

\* Bring a new volume under management, then verify it is still claimed.
syncPersistentVolume(w, u, fail) ==
    LET volume == w.vs[u]
        w1 == IF ~Exists(w.idx, volume) THEN [w EXCEPT !.idx = Add(@, volume)] ELSE w
    IN IF volume.claimRef = NONE
       THEN w1
       ELSE LET w2 == GetClaim(w1, volume.claimRef, fail)
            IN IF w2.ok
               THEN w2
               ELSE LET w3 == [w2 EXCEPT !.vs[u].claimRef = NONE,
                                         !.idx = ClearSharedRef(@, u)]
                    IN UpdateVolume(w3, u, w3.vs[u], fail)

\* The reflector applies the pending watch event to the store.
ReflectorDelivers(u) ==
    /\ volumeEvent[u]
    /\ Commit([Now EXCEPT !.ve[u] = FALSE,
                          !.vs[u] = apiVolumes[u],
                          !.idx = OrphanEntries(@, u)])

\* One item of the periodic synchronize pass.
SyncVolume(u) ==
    /\ volumeStore[u].exists
    /\ \E fail \in FailChoices : Commit(syncPersistentVolume(Now, u, fail))

\* A user changes the capacity of a volume through the API.
UserResizesVolume(u) ==
    /\ apiVolumes[u].exists
    /\ \E cap \in Capacities \ {apiVolumes[u].capacity} :
          Commit([Now EXCEPT !.av[u].capacity = cap, !.ve[u] = TRUE])

\* A user deletes a volume through the API.
UserDeletesVolume(u) ==
    /\ apiVolumes[u].exists
    /\ Commit([Now EXCEPT !.av[u] = NoPetcoVolume, !.ve[u] = TRUE])

\* Up to two volumes exist in the API when the controller starts; one may be
\* claimed by c1.
InitIndex ==
    \E cap1 \in Capacities, cap2 \in Capacities \cup {0},
       s1 \in PetcoSources, s2 \in PetcoSources, ref \in {NONE, "c1"} :
        /\ apiVolumes = [v \in VolumeNames |->
                            CASE v = "pv1" -> PetcoVolume("pv1", cap1, s1, ref)
                              [] v = "pv2" /\ cap2 # 0 -> PetcoVolume("pv2", cap2, s2, NONE)
                              [] OTHER -> NoPetcoVolume]
        /\ apiClaims = [c \in ClaimNames |->
                           IF c = "c1" THEN Claim(5, {"RWO"}, "", "", "Pending")
                           ELSE NoClaim]
        /\ volumeStore = [v \in VolumeNames |-> NoPetcoVolume]
        /\ claimStore = [c \in ClaimNames |-> NoClaim]
        /\ volumeEvent = [v \in VolumeNames |-> v = "pv1" \/ (v = "pv2" /\ cap2 # 0)]
        /\ claimEvent = [c \in ClaimNames |-> FALSE]
        /\ volumeIndex = <<>>
        /\ locks = {}
        /\ tasks = [v \in VolumeNames |-> <<>>]
        /\ apiErrors = 0
        /\ created = 0
        /\ faulted = FALSE
        /\ crashed = FALSE
        /\ stopChannels = Started.stop
        /\ channels = Started.chans
        /\ lock = ""
        /\ provisionedClaims = {}
        /\ watcher = NotWatching

NextIndex ==
    \/ \E u \in UserVolumes : ReflectorDelivers(u)
    \/ \E u \in UserVolumes : SyncVolume(u)
    \/ \E u \in UserVolumes : UserResizesVolume(u)
    \/ \E u \in UserVolumes : UserDeletesVolume(u)
    \/ UserDeletesClaim("c1")

SpecIndex == InitIndex /\ [][NextIndex]_vars

-----------------------------------------------------------------------------
(* Claims on the index queries. *)

\* The claims a query is made for: claim c2 with any request.
QueryClaims ==
    {[modes |-> m, request |-> r] : m \in (SUBSET AccessModes) \ {{}}, r \in Capacities}

\* The volumes the index holds.
IndexedVolumes(cache) ==
    UNION {{cache[k][i] : i \in 1..Len(cache[k])} : k \in DOMAIN cache}

\* Entry e can serve query q of claim c: sufficient capacity, a superset of
\* the requested access modes, and no reference to another claim.
CanServe(e, q, c) ==
    /\ e.capacity >= q.request
    /\ q.modes \subseteq GetAccessModeType(e.source)
    /\ e.claimRef \in {NONE, c}

\* Entry a is at least as good a match as entry b: smaller, or as large and
\* not later by name.
AtLeastAsGood(a, b) ==
    \/ a.capacity < b.capacity
    \/ a.capacity = b.capacity /\ NameRank(a.uid) <= NameRank(b.uid)

\* C14: among all volumes that satisfy a claim (sufficient capacity,
\* acceptable access modes, not referenced by another claim) the best-match
\* query returns one with the smallest capacity and, among equal-capacity
\* candidates, the lexicographically smallest name.
C14_BestMatch ==
    \A q \in QueryClaims :
        LET cands == {e \in IndexedVolumes(volumeIndex) : CanServe(e, q, "c2")}
            m == Match(volumeIndex, q)
        IN (cands # {} /\ m # NoMatch)
               => (m \in cands /\ \A e \in cands : AtLeastAsGood(m, e))

\* C15: if some unreferenced volume has sufficient capacity and an
\* access-mode set that is a superset of the claim's requested modes, the
\* best-match query returns a volume, also when no volume has exactly the
\* requested mode set.
C15_SupersetModesMatch ==
    \A q \in QueryClaims :
        (\E e \in IndexedVolumes(volumeIndex) : e.claimRef = NONE /\ CanServe(e, q, "c2"))
            => Match(volumeIndex, q) # NoMatch

-----------------------------------------------------------------------------
(* Access modes: c1 asks for modes no volume offers; c2 is an ordinary     *)
(* claim.                                                                  *)

InitModes ==
    \E cap1 \in Capacities, cap2 \in Capacities \cup {0},
       m1 \in {{"RWX"}, {"RWO", "RWX"}, {"RWO", "ROX", "RWX"}} :
        InitWith([NoVolumes EXCEPT
                     !["pv1"] = Volume(cap1, {"RWO"}, "Retain", NONE, "Pending"),
                     !["pv2"] = IF cap2 = 0 THEN NoVolume
                                ELSE Volume(cap2, {"RWO", "ROX"}, "Retain", NONE,
                                            "Pending")],
                 [c \in ClaimNames |->
                     IF c = "c1" THEN Claim(5, m1, "", "", "Pending")
                     ELSE Claim(5, {"RWO"}, "", "", "Pending")],
                 0)

SpecModes == InitModes /\ [][NextBind]_vars

\* Claim c carries no quality-of-service tag and no volume, in the API or in
\* the cache, offers all the access modes it requests.
Unserved(c) ==
    /\ apiClaims[c].exists /\ apiClaims[c].qos = ""
    /\ \A v \in VolumeNames :
          /\ apiVolumes[v].exists => ~(apiClaims[c].modes \subseteq apiVolumes[v].modes)
          /\ volumeStore[v].exists => ~(apiClaims[c].modes \subseteq volumeStore[v].modes)

\* Claim c has no bound volume name and is Pending.
Unbound(c) ==
    /\ apiClaims[c].volumeName = "" /\ claimStore[c].volumeName = ""
    /\ apiClaims[c].phase = "Pending"
    /\ claimStore[c].exists => claimStore[c].phase = "Pending"

\* C16: a claim with no quality-of-service annotation whose requested access
\* modes are not a subset of any existing volume's access modes is never
\* given a bound volume name and remains Pending.
C16_UnservedModesStayPending ==
    /\ [](\A c \in ClaimNames : Unserved(c) => Unbound(c))
    /\ [][\A c \in ClaimNames :
            (Unserved(c) /\ Unbound(c) /\ apiClaims'[c].exists) => Unbound(c)']_vars

\* Witness of C16: c1 was reconciled against an indexed free volume that is
\* large enough but lacks a requested mode, and is still unbound and Pending.
C16_Witness ==
    /\ Unserved("c1") /\ Unbound("c1")
    /\ claimStore["c1"].exists /\ ~claimEvent["c1"]
    /\ "pv1" \in volumeIndex
    /\ volumeStore["pv1"].claimRef = NONE
    /\ volumeStore["pv1"].capacity >= claimStore["c1"].request

-----------------------------------------------------------------------------
(* Claims on single passes of reconcileClaim.                              *)

\* The world the next pass for claim c runs in: the store holds the API's
\* copy when an event is undelivered, else the cached object.
PassWorld(c) ==
    IF claimEvent[c] THEN [Now EXCEPT !.ce[c] = FALSE, !.cs[c] = apiClaims[c]] ELSE Now

\* In world w claim c is unbound and the index has no match for it.
Unmatched(w, c) ==
    /\ w.cs[c].exists /\ w.cs[c].volumeName = ""
    /\ FindBestMatchForClaim(w, c, w.cs[c]) = NONE

\* The volumes whose API object differs between worlds w and x.
Written(w, x) == {v \in VolumeNames : w.av[v] # x.av[v]}

\* Volume object pv is a volume newly provisioned for claim c.
ProvisionedFor(pv, c) ==
    /\ pv.exists /\ pv.claimRef = c
    /\ pv.provFor = ClaimToProvisionableKey(c)
    /\ pv.prov = "true"

\* C17: when no volume matches and the claim's quality-of-service tag has a
\* registered plugin, one reconcileClaim pass creates exactly one volume whose
\* claim reference names the claim, whose provisioned-for annotation equals
\* key(claim) and which carries provisioning-required; the claim's bound
\* volume name stays empty and the pass reports Pending with no error.
C17_ProvisionPass ==
    /\ [](\A c \in ClaimNames :
            LET w == PassWorld(c)
                r == reconcileClaim(w, c, 0)
            IN (/\ Unmatched(w, c) /\ w.cs[c].qos \in provisionerPlugins
                /\ w.created < MaxProvisioned)
                   => /\ r.phase = "Pending" /\ ~r.err
                      /\ Cardinality(Written(w, r.w)) = 1
                      /\ \A v \in Written(w, r.w) :
                            ~w.av[v].exists /\ ProvisionedFor(r.w.av[v], c)
                      /\ r.w.cs[c].volumeName = "" /\ r.w.ac = w.ac)
    /\ [][(created' # created /\ apiErrors' = apiErrors)
             => \E c \in ClaimNames, v \in VolumeNames :
                   /\ Written(Now, Now') = {v}
                   /\ ~apiVolumes[v].exists /\ ProvisionedFor(apiVolumes'[v], c)
                   /\ apiClaims'[c].volumeName = "" /\ claimStore'[c].volumeName = ""
                   /\ apiClaims'[c].phase = "Pending"]_vars

\* Witness of C17: the pass for c2 has created pvp1 for it next to an indexed
\* volume that is too small; c2 has no volume name and is Pending.
C17_Witness ==
    /\ "pv1" \in volumeIndex
    /\ created = 1 /\ ProvisionedFor(apiVolumes["pvp1"], "c2")
    /\ volumeEvent["pvp1"] /\ ~volumeStore["pvp1"].exists
    /\ claimStore["c2"].exists /\ claimStore["c2"].volumeName = ""
    /\ apiClaims["c2"].volumeName = "" /\ apiClaims["c2"].phase = "Pending"

-----------------------------------------------------------------------------
(* A claim without a quality-of-service annotation next to one whose      *)
(* annotation names either a value no plugin is registered for or the      *)
(* value the plugin serves.                                                *)

\* The user volume is too small for either claim.
InitQos ==
    \E q2 \in {"not-foo", "foo"} :
        InitWith([NoVolumes EXCEPT
                     !["pv1"] = Volume(5, {"RWO"}, "Retain", NONE, "Pending")],
                 [c \in ClaimNames |-> Claim(10, {"RWO"}, IF c = "c1" THEN "" ELSE q2,
                                            "", "Pending")],
                 0)

SpecQos == InitQos /\ [][NextProvisionOk]_vars

\* String s starts with string p.
HasPrefix(s, p) == Len(s) >= Len(p) /\ SubSeq(s, 1, Len(p)) = p

\* In world w claim c carries an annotation no plugin is registered for.
NoPluginFor(w, c) == w.cs[c].qos # "" /\ w.cs[c].qos \notin provisionerPlugins

\* Claim c has been reconciled and is still cached unbound and Pending.
ReconciledPending(c) ==
    /\ claimStore[c].exists /\ ~claimEvent[c]
    /\ claimStore[c].volumeName = "" /\ claimStore[c].phase = "Pending"
    /\ apiClaims[c] = claimStore[c]

\* C18: reconcileClaim on an unmatched claim whose quality-of-service tag has
\* no registered plugin returns an error whose message starts with
\* "No provisioner found", reports Pending, and creates no volume.
C18_NoProvisionerError ==
    \A c \in ClaimNames : \A fail \in {0, 1, 2} :
        LET w == PassWorld(c)
            r == reconcileClaim(w, c, fail)
        IN (Unmatched(w, c) /\ NoPluginFor(w, c))
              => /\ r.err /\ HasPrefix(r.msg, "No provisioner found")
                 /\ r.phase = "Pending"
                 /\ r.w.av = w.av /\ r.w.created = w.created

\* Witness of C18: c2 asks for "not-foo", has been reconciled next to an
\* indexed volume that is too small, and nothing was provisioned.
C18_Witness ==
    /\ claimStore["c2"].qos = "not-foo" /\ ReconciledPending("c2")
    /\ "pv1" \in volumeIndex /\ apiVolumes["pv1"].claimRef = NONE
    /\ created = 0 /\ \A v \in ProvisionedVolumes : ~apiVolumes[v].exists

\* C19 as stated: when no volume matches and the provisioning rule does not
\* apply (the claim has no quality-of-service annotation, or no plugin is
\* registered for its value), reconcileClaim reports Pending and returns no
\* error.
C19_OtherwiseNoError ==
    \A c \in ClaimNames :
        LET w == PassWorld(c)
            r == reconcileClaim(w, c, 0)
        IN (Unmatched(w, c) /\ w.cs[c].qos \notin provisionerPlugins)
              => r.phase = "Pending" /\ ~r.err

\* C19 amended: when no volume matches and the claim has no quality-of-service
\* annotation, reconcileClaim reports Pending and returns no error; when no
\* plugin is registered for the annotation's value it reports Pending and
\* returns an error.
C19_OtherwisePending ==
    \A c \in ClaimNames : \A fail \in {0, 1, 2} :
        LET w == PassWorld(c)
            r == reconcileClaim(w, c, fail)
        IN (Unmatched(w, c) /\ w.cs[c].qos \notin provisionerPlugins)
              => /\ r.phase = "Pending"
                 /\ r.err = NoPluginFor(w, c)

\* Witness of C19: c1 has no annotation, c2's names no plugin; both have been
\* reconciled without a match and are Pending.
C19_Witness ==
    /\ claimStore["c1"].qos = "" /\ ReconciledPending("c1")
    /\ claimStore["c2"].qos = "not-foo" /\ ReconciledPending("c2")
    /\ \A v \in VolumeNames : apiVolumes[v].exists => apiVolumes[v].capacity < claimStore["c1"].request

-----------------------------------------------------------------------------
(* The index against the cache it is built from.                           *)

\* The keys of the index that hold the sorted list of an access-mode string.
ModeKeys(cache) == DOMAIN cache \ VolumeNames

\* C20: after any sequence of volume add, update and delete events, the index
\* contains exactly the volumes currently in the cache, each once: adding the
\* same volume repeatedly is idempotent, and a deleted volume is never
\* returned by a later best-match query.
C20_IndexMirrorsCache ==
    /\ \A e \in IndexedVolumes(volumeIndex) : volumeStore[e.uid].exists
    /\ \A k \in ModeKeys(volumeIndex) : \A i, j \in 1..Len(volumeIndex[k]) :
            volumeIndex[k][i].uid = volumeIndex[k][j].uid => i = j
    /\ \A u \in UserVolumes :
            volumeStore[u].exists =>
                Add(Add(volumeIndex, volumeStore[u]), volumeStore[u])
                    = Add(volumeIndex, volumeStore[u])
    /\ \A q \in QueryClaims :
            LET m == Match(volumeIndex, q)
            IN m # NoMatch => volumeStore[m.uid].exists

-----------------------------------------------------------------------------
(* Run and Stop called in any order on a constructed controller; the two   *)
(* informer loops deliver and resynchronize only while they run.           *)

InitStopped ==
    \E cap1 \in Capacities :
        /\ InitObjects([NoVolumes EXCEPT
                           !["pv1"] = Volume(cap1, {"RWO"}, "Retain", NONE, "Pending")],
                       [c \in ClaimNames |->
                           IF c = "c1" THEN Claim(5, {"RWO"}, "", "", "Pending")
                           ELSE NoClaim],
                       0)
        /\ stopChannels = NoChannels
        /\ channels = <<>>

VolumeLoop ==
    /\ LoopRuns("volumes")
    /\ \E v \in VolumeNames : DeliverVolume(v) \/ ResyncVolume(v)

ClaimLoop ==
    /\ LoopRuns("claims")
    /\ \E c \in ClaimNames : DeliverClaim(c) \/ ResyncClaim(c)

NextRunStop ==
    \/ RunCalled
    \/ StopCalled
    \/ VolumeLoop
    \/ ClaimLoop

SpecRunStop == InitStopped /\ [][NextRunStop]_vars

\* The loop names that have a stop channel in world w.
Held(w) == {n \in LoopNames : w.stop[n] # 0}

\* The open channels that were handed to loop n in world w.
OpenFor(w, n) == {i \in DOMAIN w.chans : w.chans[i].loop = n /\ w.chans[i].closes = 0}

\* C21: for any sequence of Run and Stop calls on the controller, it holds
\* exactly two stop channels (volumes, claims) whenever it is running and none
\* when it is not; a repeated Run starts no additional loops, and Stop closes
\* each channel exactly once.
C21_RunStop ==
    /\ Held(Now) \in {{}, LoopNames}
    /\ \A n \in LoopNames :
          OpenFor(Now, n) = IF n \in Held(Now) THEN {stopChannels[n]} ELSE {}
    /\ \A i \in DOMAIN channels : channels[i].closes <= 1
    /\ LET r == Run(Now)
       IN ~r.blocked => /\ Held(r) = LoopNames
                        /\ \A n \in LoopNames : Cardinality(OpenFor(r, n)) = 1
                        /\ Run(r) = r
                        /\ Held(Now) = LoopNames => r = Now
    /\ LET t == Stop(Now)
       IN /\ Held(t) = {}
          /\ \A i \in DOMAIN t.chans : t.chans[i].closes = 1
          /\ Stop(t) = t

\* Witness of C21: the controller was run, stopped and run again, and a loop
\* of the second run has delivered the volume.
C21_Witness ==
    /\ Len(channels) = 4 /\ Held(Now) = LoopNames
    /\ channels[1].closes = 1 /\ channels[2].closes = 1
    /\ volumeStore["pv1"].exists

-----------------------------------------------------------------------------
(* Claims on the pass for a claim that carries a volume name.              *)

\* C22: reconcileClaim reports Bound for claim C only when the referenced
\* volume exists and its claim reference names C; it never reports Bound when
\* the volume's claim reference names a different claim.
C22_BoundOnlyForOwnVolume ==
    \A c \in ClaimNames : \A fail \in {0, 1} :
        LET w == PassWorld(c)
            r == reconcileClaim(w, c, fail)
            v == w.cs[c].volumeName
        IN (w.cs[c].exists /\ r.phase = "Bound")
              => /\ v # ""
                 /\ w.vs[v].exists
                 /\ r.w.vs[v].claimRef = c

\* C23: when a claim's bound volume name refers to an existing volume that has
\* no claim reference, the reconcileClaim pass writes the claim reference to
\* the volume and reports Pending for that pass, whether or not the volume
\* write succeeded; Bound is reported only on a later pass.
C23_BackReferencePassPending ==
    \A c \in ClaimNames : \A fail \in {0, 1} :
        LET w == PassWorld(c)
            r == reconcileClaim(w, c, fail)
            v == w.cs[c].volumeName
        IN (/\ w.cs[c].exists /\ v # ""
            /\ w.vs[v].exists /\ w.vs[v].claimRef = NONE)
              => /\ r.w.vs[v].claimRef = c
                 /\ (fail = 0 /\ ~w.ve[v] => r.w.av[v].claimRef = c)
                 /\ r.phase = "Pending"

-----------------------------------------------------------------------------
(* Repeated provisioning passes.  The controller starts against an API     *)
(* that already holds the volume an earlier run of it created for c2; the  *)
(* initial list delivers that volume and the claim in either order.        *)

InitRestart ==
    InitWith([NoVolumes EXCEPT
                 !["pvp2"] = NewPersistentVolumeTemplate("c2", ProvisionedClaim)],
             [c \in ClaimNames |-> IF c = "c2" THEN ProvisionedClaim ELSE NoClaim],
             0)

SpecRestart == InitRestart /\ [][NextProvisionOk]_vars

\* The volumes the API holds that were provisioned for claim c.
VolumesFor(c) ==
    {v \in VolumeNames : /\ apiVolumes[v].exists
                         /\ apiVolumes[v].provFor = ClaimToProvisionableKey(c)}

\* C24: for any number of reconcile passes on the same unbound claim with a
\* registered quality-of-service tag (including passes that run before the
\* first created volume is visible in the cache, and passes that follow a
\* failed claim update), at most one volume is ever created for that claim.
C24_OneVolumePerClaim ==
    \A c \in ClaimNames : Cardinality(VolumesFor(c)) <= 1

-----------------------------------------------------------------------------
(* Claims on releasing and reclaiming volumes.                             *)

\* The claim volume object pv refers to is in the API.
ClaimInApi(pv) == pv.claimRef # NONE /\ apiClaims[pv.claimRef].exists

\* A step reports v Released, stamps it, or starts a recycle or delete task.
NewlyReleased(v) ==
    /\ apiVolumes'[v].exists /\ apiVolumes'[v].phase = "Released"
    /\ apiVolumes[v].phase # "Released"

NewlyStamped(v) ==
    /\ apiVolumes'[v].exists
    /\ \/ apiVolumes'[v].recycle = "true" /\ apiVolumes[v].recycle = ""
       \/ apiVolumes'[v].delete = "true" /\ apiVolumes[v].delete = ""

NewReclaimTask(v) ==
    /\ Len(tasks'[v]) = Len(tasks[v]) + 1
    /\ tasks'[v][Len(tasks'[v])].kind \in {pvRecycleRequired, pvDeleteRequired}

\* C25: a volume is reported Released, stamped for recycle or delete, or
\* handed to a recycle/delete plugin only if a direct API read has confirmed
\* that the claim named by its claim reference does not exist; a volume whose
\* claim still exists in the API (even if missing from the local cache) is
\* never released or scrubbed.
C25_ReclaimOnlyAfterClaimGone ==
    [][\A v \in VolumeNames :
          /\ (NewlyReleased(v) \/ NewlyStamped(v))
                => /\ ~ClaimInApi(apiVolumes'[v])
                   /\ ~ClaimInApi(volumeStore'[v])
          /\ NewReclaimTask(v) => ~ClaimInApi(volumeStore'[v])]_vars

\* The world the next pass for volume v runs in.
VolumePassWorld(v) ==
    IF volumeEvent[v]
    THEN [Now EXCEPT !.ve[v] = FALSE, !.tasks[v] = Orphan(@), !.vs[v] = apiVolumes[v]]
    ELSE Now

\* In world w the claim that volume object pv refers to is gone from the cache
\* and from the API.
ClaimGone(w, pv) ==
    /\ pv.exists /\ pv.claimRef # NONE
    /\ ~w.cs[pv.claimRef].exists /\ ~w.ac[pv.claimRef].exists

\* Volume object pv carries the stamps its policy calls for and no other.
StampedByPolicy(pv) ==
    /\ keyExists(pvRecycleRequired, pv) <=> pv.policy = "Recycle"
    /\ keyExists(pvDeleteRequired, pv) <=> pv.policy = "Delete"

Unstamped(pv) == ~keyExists(pvRecycleRequired, pv) /\ ~keyExists(pvDeleteRequired, pv)

\* Worlds w and x hold the same volumes, tasks and markers.
Untouched(w, x) ==
    w.av = x.av /\ w.vs = x.vs /\ w.tasks = x.tasks /\ w.locks = x.locks

\* C26: when a volume's claim is confirmed deleted, the volume becomes
\* Released and is stamped with recycle-required if and only if its policy is
\* Recycle, with delete-required if and only if its policy is Delete, and with
\* neither under Retain; under Retain it stays Released and no plugin
\* operation is ever requested for it.
C26_StampByPolicy ==
    \A v \in VolumeNames :
        /\ \A pv \in {apiVolumes[v], volumeStore[v]} :
              /\ keyExists(pvRecycleRequired, pv) => pv.policy = "Recycle"
              /\ keyExists(pvDeleteRequired, pv) => pv.policy = "Delete"
        /\ \A i \in 1..Len(tasks[v]) : \A pv \in {apiVolumes[v], volumeStore[v]} :
              /\ tasks[v][i].kind = pvRecycleRequired /\ pv.exists => pv.policy = "Recycle"
              /\ tasks[v][i].kind = pvDeleteRequired /\ pv.exists => pv.policy = "Delete"
        /\ LET w == VolumePassWorld(v)
               pv == w.vs[v]
               r == reconcileVolume(w, v, 0)
           IN (ClaimGone(w, pv) /\ Unstamped(pv))
                 => IF pv.phase # "Released"
                    THEN r.phase = "Released" /\ Untouched(r.w, w)
                    ELSE /\ ~r.err => r.phase = "Released" /\ StampedByPolicy(r.w.av[v])
                         /\ pv.policy = "Retain" => Untouched(r.w, w) /\ ~r.err

\* Witness of C26: the claim of pv1 is gone and pv1, whose policy is Recycle,
\* is Released and stamped with the recycle request only.
C26_Witness ==
    /\ ~apiClaims["c1"].exists /\ apiVolumes["pv1"].claimRef = "c1"
    /\ apiVolumes["pv1"].phase = "Released"
    /\ apiVolumes["pv1"].policy = "Recycle" /\ StampedByPolicy(apiVolumes["pv1"])
    /\ volumeStore["pv1"] = apiVolumes["pv1"] /\ ~volumeEvent["pv1"]

-----------------------------------------------------------------------------
(* The busy markers of the background tasks. *)

\* A task for volume v ends in this step.
TaskEnds(v) == Len(tasks'[v]) < Len(tasks[v])

\* C27: every provision, recycle or delete task, on success and on failure,
\* removes the busy marker it installed exactly once and unlocks only a lock
\* it holds: the step in which a task ends finds the volume's marker, removes
\* it, and does not bring the process down by unlocking a marker that is
\* already gone.
C27_TaskRemovesOwnMarker ==
    [][\A v \in VolumeNames :
          TaskEnds(v) => v \in locks /\ v \notin locks' /\ ~crashed']_vars

\* In this step task i of volume v ends at its plugin call, the plugin having
\* returned an error.
PluginErrorEnds(v, i) ==
    /\ tasks[v][i].pc = "plugin"
    /\ tasks'[v] = RemoveAt(tasks[v], i)
    /\ tasks[v][i].kind = pvProvisioningRequired => hasProvisioner(apiVolumes[v])

\* C28: when a provision, recycle or delete plugin call returns an error, the
\* background task writes a Failed status for that volume to the API and
\* writes no completed annotation.
C28_PluginErrorReported ==
    [][\A v \in VolumeNames : \A i \in 1..Len(tasks[v]) :
          PluginErrorEnds(v, i)
             => /\ apiVolumes'[v].phase = "Failed"
                /\ apiVolumes'[v][tasks[v][i].kind] = apiVolumes[v][tasks[v][i].kind]
                /\ volumeStore'[v][tasks[v][i].kind] = volumeStore[v][tasks[v][i].kind]]_vars

\* Its second half alone: the failed task leaves the annotation as it was.
PluginErrorWritesNoMark ==
    [][\A v \in VolumeNames : \A i \in 1..Len(tasks[v]) :
          PluginErrorEnds(v, i)
             => /\ apiVolumes'[v][tasks[v][i].kind] = apiVolumes[v][tasks[v][i].kind]
                /\ volumeStore'[v][tasks[v][i].kind] = volumeStore[v][tasks[v][i].kind]
                /\ apiVolumes'[v].phase = apiVolumes[v].phase]_vars

-----------------------------------------------------------------------------
(* Reclaim with a plugin that may fail any number of times and eventually  *)
(* succeeds: each request is a new plugin call, and of infinitely many     *)
(* calls one returns without error.                                        *)

InitRetry == InitBoundPair({"Recycle", "Delete"}, Bystanders, MaxApiErrors)

FairRetry ==
    \A v \in VolumeNames : SF_vars(PluginSucceeds(v)) /\ WF_vars(TaskWritesBack(v))

SpecRetry == InitRetry /\ [][NextReclaim]_vars /\ FairDelivery /\ FairRetry

ReclaimKinds == {pvRecycleRequired, pvDeleteRequired}

\* Volume object pv carries the required annotation k without the completed
\* value.
RequiredOnly(pv, k) == pv.exists /\ keyExists(k, pv) /\ ~isAnnotationMatch(k, Completed, pv)

\* The volume v the API holds carries the completed value of annotation k.
ReceivedCompleted(v, k) == isAnnotationMatch(k, Completed, apiVolumes[v])

\* C29: a volume that carries a required annotation without the completed
\* value and has no task in flight is not stuck: the next pass on it requests
\* the operation again, also after a plugin failure, and with fair resyncs and
\* a plugin that eventually succeeds the volume eventually receives the
\* completed annotation.
C29_RetryUntilCompleted ==
    /\ [](\A v \in VolumeNames, k \in ReclaimKinds :
             LET w == VolumePassWorld(v)
             IN (RequiredOnly(w.vs[v], k) /\ w.tasks[v] = <<>> /\ v \notin w.locks)
                   => LET r == reconcileVolume(w, v, 0)
                      IN /\ Len(r.w.tasks[v]) = 1 /\ r.w.tasks[v][1].kind = k
                         /\ r.w.tasks[v][1].pc = "plugin"
                         /\ v \in r.w.locks)
    /\ \A v \in VolumeNames, k \in ReclaimKinds :
          RequiredOnly(apiVolumes[v], k) ~> ReceivedCompleted(v, k)

-----------------------------------------------------------------------------
(* The earlier controller of pkg/controller/persistentvolume, which only   *)
(* provisions (binding is the binder's).  Its handlers hold the "_main"    *)
(* lock from entry to return, and its reconcileVolume calls                *)
(* provisionVolume on the handler's own goroutine.  A task at pc "inline"  *)
(* is that call waiting in the plugin: the handler has not returned and    *)
(* "_main" is still locked.  It registers no delete handlers.              *)

\* Whether "_main" is locked in world w: a handler is inside a plugin call.
MainHeld(w) ==
    \E v \in VolumeNames : \E i \in 1..Len(w.tasks[v]) : w.tasks[v][i].pc = "inline"

\* provisionVolume up to the plugin call; every early return runs the
\* deferred function.
provisionVolumeInline(w, v) ==
    LET pv == w.vs[v]
    IN IF \/ isAnnotationMatch(pvProvisioningRequired, Completed, pv)
          \/ ~hasProvisioner(pv)
          \/ ~w.cs[pv.claimRef].exists
       THEN deferredUnlock(w, v)
       ELSE [w EXCEPT !.tasks[v] = Append(@, [kind |-> pvProvisioningRequired,
                                              pc |-> "inline", shared |-> TRUE])]

\* reconcileVolume of the earlier controller: it returns an error or nil and
\* writes nothing itself.
reconcileVolumeInline(w, v) ==
    LET pv == w.vs[v]
    IN IF pv.claimRef = NONE
       THEN w
       ELSE IF ~w.cs[pv.claimRef].exists
            THEN w
            ELSE IF ~keyExists(pvProvisioningRequired, pv)
                 THEN w
                 ELSE IF isAnnotationMatch(pvProvisioningRequired, Completed, pv)
                      THEN w
                      ELSE IF markerFree(w, v)
                           THEN provisionVolumeInline(
                                    [w EXCEPT !.locks = @ \cup {v}], v)
                           ELSE w

handleAddVolumeInline(w, v) ==
    IF ~w.vs[v].exists THEN w ELSE reconcileVolumeInline(w, v)

\* The plugin call of provisionVolume returned: on an error the volume is
\* reported Failed, on success a clone marked completed is written; the
\* deferred function removes the marker and the handler returns.
inlinePluginReturned(w, v, i, ok, fail) ==
    LET t == w.tasks[v][i]
        fresh == t.shared /\ ~w.ve[v]
    IN IF ~ok
       THEN LET w1 == IF t.shared THEN [w EXCEPT !.vs[v].phase = "Failed"] ELSE w
            IN finishTask(UpdatePersistentVolumeStatus(
                              w1, v, [w.vs[v] EXCEPT !.phase = "Failed"], fresh, fail),
                          v, i)
       ELSE finishTask(UpdatePersistentVolume(
                           w, v, [w.vs[v] EXCEPT ![pvProvisioningRequired] = Completed],
                           fresh, fail),
                       v, i)

\* reconcileClaim of the earlier controller: create the volume for a claim
\* whose quality-of-service tag has a plugin, then mark the claim.
reconcileClaimInline(w, c, fail) ==
    LET claim == w.cs[c]
    IN IF claim.qos = "" \/ claim.volumeName # "" \/ claim.prov = Completed
       THEN w
       ELSE IF claim.qos \notin provisionerPlugins
            THEN w
            ELSE IF w.created >= MaxProvisioned
                 THEN [w EXCEPT !.blocked = TRUE]
                 ELSE LET n == GeneratedName(w.created + 1)
                          w1 == CreatePersistentVolume(
                                    [w EXCEPT !.created = @ + 1], n,
                                    NewPersistentVolumeTemplate(c, claim), fail)
                          w2 == [w1 EXCEPT !.cs[c].prov = Completed]
                      IN IF ~w1.ok
                         THEN w1
                         ELSE UpdatePersistentVolumeClaim(w2, c, w2.cs[c], ~w2.ce[c], fail)

handleAddClaimInline(w, c, fail) ==
    IF ~w.cs[c].exists THEN w ELSE reconcileClaimInline(w, c, fail)

\* A handler waits for "_main"; a deletion only updates the store.
DeliverVolumeInline(v) ==
    /\ ~crashed
    /\ volumeEvent[v]
    /\ LET w0 == [Now EXCEPT !.ve[v] = FALSE, !.tasks[v] = Orphan(@)]
       IN IF apiVolumes[v].exists
          THEN /\ ~MainHeld(Now)
               /\ Commit(handleAddVolumeInline([w0 EXCEPT !.vs[v] = apiVolumes[v]], v))
          ELSE Commit([w0 EXCEPT !.vs[v] = NoVolume])

ResyncVolumeInline(v) ==
    /\ ~crashed
    /\ ~MainHeld(Now)
    /\ volumeStore[v].exists
    /\ Commit(handleAddVolumeInline(Now, v))

DeliverClaimInline(c) ==
    /\ ~crashed
    /\ claimEvent[c]
    /\ \E fail \in FailChoices :
          LET w0 == [Now EXCEPT !.ce[c] = FALSE]
          IN IF apiClaims[c].exists
             THEN /\ ~MainHeld(Now)
                  /\ Commit(handleAddClaimInline([w0 EXCEPT !.cs[c] = apiClaims[c]], c, fail))
             ELSE Commit([w0 EXCEPT !.cs[c] = NoClaim])

ResyncClaimInline(c) ==
    /\ ~crashed
    /\ ~MainHeld(Now)
    /\ claimStore[c].exists
    /\ \E fail \in FailChoices : Commit(handleAddClaimInline(Now, c, fail))

InlinePluginReturns(v) ==
    /\ ~crashed
    /\ \E i \in 1..Len(tasks[v]), ok \in BOOLEAN, fail \in FailChoices \cap {0, 1} :
          /\ tasks[v][i].pc = "inline"
          /\ Commit(inlinePluginReturned(Now, v, i, ok, fail))

\* A free volume, a claim to provision for, and a second claim with no tag
\* or with a tag no plugin serves; API calls fail only on stale versions.
InitInline ==
    \E cap \in Capacities, qos \in {"", "not-foo"}, r \in Capacities :
        InitWith([NoVolumes EXCEPT
                     !["pv1"] = Volume(cap, {"RWO"}, "Retain", NONE, "Pending")],
                 [c \in ClaimNames |->
                     IF c = "c2" THEN ProvisionedClaim
                     ELSE Claim(r, {"RWO"}, qos, "", "Pending")],
                 MaxApiErrors)

NextInline ==
    \/ \E v \in VolumeNames : DeliverVolumeInline(v)
    \/ \E v \in VolumeNames : ResyncVolumeInline(v)
    \/ \E c \in ClaimNames : DeliverClaimInline(c)
    \/ \E c \in ClaimNames : ResyncClaimInline(c)
    \/ \E v \in VolumeNames : InlinePluginReturns(v)
    \/ \E c \in ClaimNames : UserDeletesClaim(c)

SpecInline == InitInline /\ [][NextInline]_vars

\* A plugin call for volume v is in progress.
InPluginCall(v) ==
    \E i \in 1..Len(tasks[v]) : tasks[v][i].pc \in {"plugin", "inline"}

\* C30: no plugin call is ever made while the reconciler's coarse lock is
\* held: whenever a plugin call is in progress the "_main" lock is free, so a
\* pass for another object can proceed.
C30_NoPluginCallUnderMainLock ==
    \A v \in VolumeNames : InPluginCall(v) => ~MainHeld(Now)

-----------------------------------------------------------------------------
(* Who touches controller.locks, and under which mutexes.  A handler holds *)
(* "_main" for the whole pass; a task holds only the mutex stored under    *)
(* its volume's name, which it reads from the map and deletes from it.     *)

\* The mutexes a reconcile pass holds when it looks a marker up or installs it.
HandlerLocks == {"_main"}

\* The mutexes the task of volume v holds when it deletes the marker.
TaskLocks(v) == {v}

\* A pass on volume u, which may start at any time, looks u's marker up.
PassReadsMarkers(u) ==
    LET pv == VolumePassWorld(u).vs[u]
    IN /\ ~crashed
       /\ pv.exists /\ pv.claimRef # NONE
       /\ ~pvRequiresRecycleOrDelete(pv)
       /\ awaitingRecycleToComplete(pv) \/ awaitingDeleteToComplete(pv)

\* A task of volume v is running: its removal of the marker is still to come.
TaskWillRemoveMarker(v) == ~crashed /\ tasks[v] # <<>>

\* C31: every read or write of the busy-marker map is made under a lock
\* common to all its accessors: whenever a task that will remove its marker
\* runs while a pass that looks a marker up can start, the two hold a mutex
\* in common.
C31_MarkerMapUnderCommonLock ==
    \A v \in VolumeNames, u \in VolumeNames :
        (TaskWillRemoveMarker(v) /\ PassReadsMarkers(u))
            => HandlerLocks \cap TaskLocks(v) # {}

-----------------------------------------------------------------------------
(* Failed writes and mismatches. *)

\* In world w the pass for claim c takes the search step with volume v.
SearchStep(w, c, v) ==
    /\ w.cs[c].exists /\ w.cs[c].volumeName = ""
    /\ v # NONE /\ FindBestMatchForClaim(w, c, w.cs[c]) = v

\* C32: if the claim write of the search step fails, reconcileClaim returns
\* an error with status Pending, the in-memory claim's bound volume name is
\* empty again, the candidate volume's claim reference is as it was, and the
\* pass does not fault.
C32_FailedClaimWriteRolledBack ==
    \A c \in ClaimNames, v \in VolumeNames, fail \in {0, 1} :
        LET w == PassWorld(c)
            r == reconcileClaim(w, c, fail)
        IN (~crashed /\ SearchStep(w, c, v) /\ ~r.w.ok)
              => /\ r.err /\ r.phase = "Pending"
                 /\ r.w.cs[c].volumeName = ""
                 /\ r.w.vs[v].claimRef = w.vs[v].claimRef
                 /\ r.w.av[v].claimRef = w.av[v].claimRef
                 /\ ~r.w.faulted /\ ~r.w.crashed

\* What does hold after the failed write: everything but the cached name.
FailedClaimWriteKeepsName ==
    \A c \in ClaimNames, v \in VolumeNames, fail \in {0, 1} :
        LET w == PassWorld(c)
            r == reconcileClaim(w, c, fail)
        IN (~crashed /\ SearchStep(w, c, v) /\ ~r.w.ok)
              => /\ r.err /\ r.phase = "Pending"
                 /\ r.w.cs[c].volumeName = v
                 /\ r.w.vs[v].claimRef = w.vs[v].claimRef
                 /\ r.w.av = w.av /\ r.w.ac = w.ac
                 /\ ~r.w.faulted /\ ~r.w.crashed

\* The claim object a pass in world w finds for name c: the cached one, else
\* the API's.
FoundClaim(w, c) == IF w.cs[c].exists THEN w.cs[c] ELSE w.ac[c]

\* In world w volume v refers to a claim that exists and names another
\* volume, or none.
Mismatched(w, v) ==
    LET pv == w.vs[v]
    IN /\ pv.exists /\ pv.claimRef # NONE
       /\ FoundClaim(w, pv.claimRef).exists
       /\ FoundClaim(w, pv.claimRef).volumeName # v

C34_NeverFailedWithoutErrors ==
    \A v \in VolumeNames :
        apiVolumes[v].phase # "Failed" /\ volumeStore[v].phase # "Failed"

\* C35: every reconcile pass ends without a runtime fault: in particular the
\* pass that clears the claim reference after a completed recycle and the
\* pass that issues the DELETE after a completed delete.
C35_PassesDoNotFault == ~faulted

-----------------------------------------------------------------------------
(* Repeated scrubbing. *)

\* A recycle task of volume v whose plugin call succeeded ends in this step.
ScrubbedTaskEnds(v) ==
    \E i \in 1..Len(tasks[v]) :
        /\ tasks[v][i].kind = pvRecycleRequired /\ tasks[v][i].pc = "marked"
        /\ tasks'[v] = RemoveAt(tasks[v], i)

\* The recycle tasks a pass on volume v starts in world w.
Rescrubs(w, v) ==
    LET r == reconcileVolume(w, v, 0)
    IN {j \in 1..Len(r.w.tasks[v]) :
           j > Len(w.tasks[v]) /\ r.w.tasks[v][j].kind = pvRecycleRequired}

\* C36: when the first invocation of the recycle plugin for a released volume
\* succeeds, the volume is not scrubbed again: once that task has ended,
\* neither a resync of the cached volume nor the delivery of its pending
\* event starts another recycle task.
C36_ScrubbedOnce ==
    [][\A v \in VolumeNames :
          (ScrubbedTaskEnds(v) /\ ~crashed')
             => /\ volumeStore'[v].exists => Rescrubs(Now', v) = {}
                /\ (volumeEvent'[v] /\ apiVolumes'[v].exists)
                      => Rescrubs([Now' EXCEPT !.ve[v] = FALSE, !.tasks[v] = Orphan(@),
                                               !.vs[v] = apiVolumes'[v]], v) = {}]_vars

\* In world w the pass on volume v reaches the claim lookup, does not find
\* the claim in the store and reads it from the API, where it is gone too.
ReadsClaimFromApi(w, v) ==
    LET pv == w.vs[v]
    IN /\ pv.exists /\ pv.claimRef # NONE
       /\ ~pvRequiresRecycleOrDelete(pv)
       /\ ~keyExists(pvRecycleRequired, pv) /\ ~keyExists(pvDeleteRequired, pv)
       /\ ~w.cs[pv.claimRef].exists /\ ~w.ac[pv.claimRef].exists

\* C37: when the API read that is to confirm a claim's absence fails with an
\* error other than not-found, the pass marks the volume neither Released nor
\* Failed and stamps no reclaim annotation: the phase and annotations of the
\* volume, cached and in the API, are as before the pass.
C37_FailedReadDecidesNothing ==
    \A v \in VolumeNames :
        LET w == VolumePassWorld(v)
            h == handleAddVolume(w, v, 1)
        IN (~crashed /\ ReadsClaimFromApi(w, v))
              => /\ h.av[v].phase = w.av[v].phase
                 /\ h.vs[v].phase = w.vs[v].phase
                 /\ Unstamped(h.av[v]) /\ Unstamped(h.vs[v])
                 /\ h.tasks = w.tasks

\* What does hold after the failed read: nothing is stamped or started.
FailedReadStampsNothing ==
    \A v \in VolumeNames :
        LET w == VolumePassWorld(v)
            h == handleAddVolume(w, v, 1)
        IN (~crashed /\ ReadsClaimFromApi(w, v))
              => /\ h.vs[v].phase = "Failed"
                 /\ Unstamped(h.av[v]) /\ Unstamped(h.vs[v])
                 /\ h.tasks = w.tasks /\ h.locks = w.locks

-----------------------------------------------------------------------------
(* The stand-alone provisioner (an earlier version).  Its informers keep   *)
(* their own stores (volumeStore, claimStore) and call addX for an object  *)
(* new to the store, updateX for a known one (and on every resync) and     *)
(* deleteX for one that is gone.  Every callback takes provisioner.lock; a *)
(* callback that asks for the lock while holding it never returns, and     *)
(* lock then names it for good.  created counts the devices the plugin has *)
(* made in the infrastructure; the claim field prov is the "provisioned"   *)
(* annotation.  Claims that carry a quality-of-service tag also carry the  *)
(* binder's "provisionable" annotation.                                    *)

\* The registry handed to NewPersistentVolumeProvisioner.
creaters == provisionerPlugins

\* The object creater.Create() returns for claim c, as annotated before it
\* is sent to the API.
CreatedVolume(c, claim) ==
    [exists |-> TRUE, capacity |-> claim.request, modes |-> claim.modes,
     policy |-> "Delete", claimRef |-> NONE, phase |-> "Pending", recycle |-> "",
     delete |-> "", prov |-> "", provFor |-> ClaimToProvisionableKey(c),
     qos |-> claim.qos]

\* provisionClaim, called with the cached claim object; ok: Create succeeds.
provisionClaim(w, c, ok, fail) ==
    LET pvc == w.cs[c]
        key == ClaimToProvisionableKey(c)
    IN IF pvc.prov # "" \/ key \in w.pclaims
       THEN w
       ELSE IF ~ok
            THEN w
            ELSE IF w.created >= MaxProvisioned
                 THEN [w EXCEPT !.blocked = TRUE]
                 ELSE LET n == GeneratedName(w.created + 1)
                          w1 == [w EXCEPT !.created = @ + 1,
                                          !.pclaims = @ \cup {key},
                                          !.cs[c].prov = "true"]
                          w2 == UpdatePersistentVolumeClaim(w1, c, w1.cs[c],
                                                            ~w1.ce[c], fail)
                      IN CreatePersistentVolume(w2, n, CreatedVolume(c, pvc), fail)

\* addClaim, entered with the lock free.
addClaim(w, c, ok, fail) ==
    LET claim == w.cs[c]
        w1 == IF claim.prov # ""
              THEN [w EXCEPT !.pclaims = @ \cup {ClaimToProvisionableKey(c)}]
              ELSE w
    IN IF claim.qos = "" \/ claim.qos \notin creaters
       THEN w1
       ELSE provisionClaim(w1, c, ok, fail)

\* updateClaim: takes the lock and calls addClaim, which asks for it again.
updateClaim(w, c, ok, fail) == [w EXCEPT !.lock = "updateClaim"]

\* addVolume and updateVolume: both record the claim a volume was made for.
addVolume(w, v) ==
    IF w.vs[v].provFor # NONE THEN [w EXCEPT !.pclaims = @ \cup {w.vs[v].provFor}]
    ELSE w

updateVolume(w, v) == addVolume(w, v)

\* deleteVolume with the last known object; missed: the informer only knows
\* that the object is gone.
deleteVolume(w, v, obj, missed) ==
    IF missed \/ obj.provFor = NONE THEN w
    ELSE [w EXCEPT !.pclaims = @ \ {obj.provFor}]

ProvisionerDeliverVolume(v) ==
    /\ lock = ""
    /\ volumeEvent[v]
    /\ LET w0 == [Now EXCEPT !.ve[v] = FALSE, !.vs[v] = apiVolumes[v]]
       IN IF apiVolumes[v].exists
          THEN Commit(IF volumeStore[v].exists THEN updateVolume(w0, v)
                      ELSE addVolume(w0, v))
          ELSE \E missed \in BOOLEAN :
                  Commit(IF volumeStore[v].exists
                         THEN deleteVolume(w0, v, volumeStore[v], missed)
                         ELSE w0)

ProvisionerResyncVolume(v) ==
    /\ lock = ""
    /\ volumeStore[v].exists
    /\ Commit(updateVolume(Now, v))

\* No DeleteFunc is registered for claims.
ProvisionerDeliverClaim(c) ==
    /\ lock = ""
    /\ claimEvent[c]
    /\ \E ok \in BOOLEAN, fail \in FailChoices :
          LET w0 == [Now EXCEPT !.ce[c] = FALSE, !.cs[c] = apiClaims[c]]
          IN Commit(IF ~apiClaims[c].exists THEN w0
                    ELSE IF claimStore[c].exists THEN updateClaim(w0, c, ok, fail)
                    ELSE addClaim(w0, c, ok, fail))

ProvisionerResyncClaim(c) ==
    /\ lock = ""
    /\ claimStore[c].exists
    /\ \E ok \in BOOLEAN, fail \in FailChoices : Commit(updateClaim(Now, c, ok, fail))

\* An administrator deletes a volume object through the API.
AdminDeletesVolume(v) ==
    /\ apiVolumes[v].exists
    /\ Commit([Now EXCEPT !.av[v] = NoVolume, !.ve[v] = TRUE])

\* A provisioner just constructed and run: a claim to provision for, a second
\* claim with any tag, and possibly a volume made by hand; transient API
\* errors and plugin failures happen.
InitProvisioner ==
    \E qos \in {"", "not-foo", "foo"}, r \in Capacities, cap \in Capacities \cup {0} :
        InitWith([NoVolumes EXCEPT
                     !["pv1"] = IF cap = 0 THEN NoVolume
                                ELSE Volume(cap, {"RWO"}, "Retain", NONE, "Pending")],
                 [c \in ClaimNames |->
                     IF c = "c1" THEN ProvisionedClaim
                     ELSE Claim(r, {"RWO"}, qos, "", "Pending")],
                 0)

NextProvisioner ==
    \/ \E v \in VolumeNames : ProvisionerDeliverVolume(v)
    \/ \E v \in VolumeNames : ProvisionerResyncVolume(v)
    \/ \E c \in ClaimNames : ProvisionerDeliverClaim(c)
    \/ \E c \in ClaimNames : ProvisionerResyncClaim(c)
    \/ \E v \in VolumeNames : AdminDeletesVolume(v)
    \/ \E c \in ClaimNames : UserDeletesClaim(c)

SpecProvisioner == InitProvisioner /\ [][NextProvisioner]_vars

\* C38: every claim-update callback of the stand-alone provisioner returns:
\* no callback is ever left waiting for the provisioner's own lock, so the
\* lock is free whenever the next claim or volume event arrives.
C38_UpdateCallbackReturns == lock = ""

\* The volume object made for claim c exists in the API.
VolumeObjectFor(c) ==
    \E v \in VolumeNames :
        apiVolumes[v].exists /\ apiVolumes[v].provFor = ClaimToProvisionableKey(c)

\* The provisioner will skip claim c: the in-memory set or the annotation,
\* cached or in the API, says it is provisioned.
RecordedProvisioned(c) ==
    \/ ClaimToProvisionableKey(c) \in provisionedClaims
    \/ claimStore[c].prov # ""
    \/ apiClaims[c].prov # ""

\* C39: in the stand-alone provisioner a claim is recorded as provisioned, in
\* the in-memory set or by its annotation, only if a volume object for it
\* exists in the API: a callback that records a claim leaves a volume object
\* for it in the API, so a claim whose volume object could not be created
\* is not recorded and a later event for it provisions again.
C39_RecordedOnlyWithVolumeObject ==
    [][\A c \in ClaimNames :
          (~RecordedProvisioned(c) /\ RecordedProvisioned(c)') => VolumeObjectFor(c)']_vars

-----------------------------------------------------------------------------
(* The binding controller's watch loop (the earliest version).  Run calls  *)
(* watchPersistentVolumes forever with one cursor; each call opens a watch *)
(* from the cursor and consumes its events until the stream is closed.     *)
(* watcher.sent is the highest resource version the open stream has sent,  *)
(* watcher.handled the versions handed to watchHandler, in order.          *)

\* The call to Watch at the head of watchPersistentVolumes; ok: it succeeds.
\* A failed call is reported and the function returns.
WatchOpened(w, ok) ==
    IF ok THEN [w EXCEPT !.watcher.watching = TRUE, !.watcher.sent = w.watcher.rv]
    ELSE w

\* The loop body for an event that carries volume version n.
ObjectReceived(w, n) ==
    [w EXCEPT !.watcher.sent = n,
              !.watcher.rv = n,
              !.watcher.handled = Append(@, n)]

\* The loop body for an Error event: reported, then "continue".  The
\* server may have lost d events with it.
ErrorReceived(w, d) ==
    [w EXCEPT !.watcher.errors = @ + 1,
              !.watcher.sent = IF @ + d > MaxVersion THEN MaxVersion ELSE @ + d]

\* The loop body for a closed channel: return, to be called again.
ChannelClosed(w) == [w EXCEPT !.watcher.watching = FALSE]

WatchStarts ==
    /\ ~watcher.watching
    /\ \E ok \in BOOLEAN : Commit(WatchOpened(Now, ok))

ObjectEvent ==
    /\ watcher.watching
    /\ watcher.sent < MaxVersion
    /\ Commit(ObjectReceived(Now, watcher.sent + 1))

ErrorEvent ==
    /\ watcher.watching
    /\ watcher.errors < MaxWatchErrors
    /\ \E d \in {0, 1} : Commit(ErrorReceived(Now, d))

StreamCloses ==
    /\ watcher.watching
    /\ Commit(ChannelClosed(Now))

\* A controller just constructed; Run has set the cursor to "".
InitWatcher ==
    InitWith(NoVolumes, [c \in ClaimNames |-> NoClaim], MaxApiErrors)

NextWatcher ==
    \/ WatchStarts
    \/ ObjectEvent
    \/ ErrorEvent
    \/ StreamCloses

SpecWatcher == InitWatcher /\ [][NextWatcher]_vars

\* The step consumes an Error event.
ErrorConsumed == watcher'.errors = watcher.errors + 1

\* C40: when the watch stream delivers an Error event to a watcher that has
\* a resource-version cursor, the watcher discards the cursor and ends the
\* watch, so that it lists again before it resumes; the handler is not
\* called for the Error event.
C40_ErrorDiscardsCursor ==
    [][(ErrorConsumed /\ watcher.rv # 0)
                     => /\ watcher'.rv = 0
                        /\ ~watcher'.watching
                        /\ watcher'.handled = watcher.handled]_vars

\* What does hold for an Error event: no handler call, the cursor and the
\* stream are kept.
ErrorEventSkipped ==
    [][ErrorConsumed => /\ watcher'.handled = watcher.handled
                        /\ watcher'.rv = watcher.rv
                        /\ watcher'.watching]_vars

\* Events that the stream delivers after Error events are handled: the
\* handler has been called for a version sent after the last error.
HandledAfterError ==
    /\ watcher.errors = MaxWatchErrors
    /\ watcher.handled # <<>>
    /\ watcher.handled[Len(watcher.handled)] = MaxVersion

====
